---- MODULE Spec2Model ----
(***************************************************************************)
(* Vulkan H.265 encoder of gst-plugins-bad: the GOP planner of the         *)
(* GstH265Encoder base class, the reorder engine and reference list of the *)
(* vulkanh265enc element, the DPB slot handling and the session life cycle *)
(* of GstVulkanEncoder, and the dependency bookkeeping of                  *)
(* GstVulkanOperation.                                                     *)
(*                                                                         *)
(* A frame is identified by id = system_frame_number + 1; 0 is NULL.       *)
(* Slice types carry the names of GstH265SliceType; a zero-initialised     *)
(* slice type is GST_H265_B_SLICE (= 0).                                   *)
(***************************************************************************)
EXTENDS Integers, Sequences, FiniteSets, Bags, TLC

(* ------------------------------ bounds -------------------------------- *)
\* Frames handed to the element in one run.
MaxFrames == 6
\* Largest idr_period left in gop.idr_period before set_format.
MaxIdrPeriod == 6
\* Largest gop.num_bframes requested.
MaxBFrames == 3
\* Largest "ref-frames" property value.
MaxRefFrames == 3
\* Frames flagged FORCE_KEYFRAME in one run.
MaxForceKeyframes == 1
\* Pictures the caller of the encoder makes.
MaxPictures == 3
\* The smallest DPB a device reports.
SmallDpbSlots == 2
\* Jobs of the recorder in flight at once.
MaxJobs == 1
\* Largest timeline semaphore value followed.
MaxSemaphoreValue == 1
\* Barriers recorded at once.
MaxBarriers == 1
\* Dependency frames recorded at once.
MaxDeps == 2
\* Bytes of the largest packed header.
MaxHeaderBytes == 2
\* Largest offset and size an encode query reports.
MaxQueryOffset == 1
MaxSliceBytes == 2
\* The largest bitrate and quality level the device reports
\* (VkVideoEncodeCapabilitiesKHR maxBitrate, maxQualityLevels).
DeviceMaxBitrate == 2
DeviceMaxQualityLevels == 1

(* --------------------------- program constants ------------------------ *)
\* A guint32 that has wrapped below zero.  Every such value is at least
\* 2^32 - 2, above every other quantity of the model; TLC integers are
\* 32-bit signed, so the largest one stands for it.
G_MAXUINT32 == 2147483647
\* VkVideoReferenceSlotInfoKHR ref_slots[16]
REF_SLOTS_LEN == 16

NULL == 0

Min(a, b) == IF a < b THEN a ELSE b
Max(a, b) == IF a > b THEN a ELSE b

\* a - b in guint32 arithmetic.
U32Sub(a, b) == IF a >= b THEN a - b ELSE G_MAXUINT32

(* ----------------------- gsth265encoder.c: planner --------------------- *)
RECURSIVE BitLength(_)
BitLength(num) == IF num = 0 THEN 0 ELSE 1 + BitLength(num \div 2)

\* The bits of num less one, with no lower limit.
_get_log2_floor(num) == IF num < 2 THEN 0 ELSE BitLength(num) - 1

_get_log2_max_num(num) ==
  LET ret == BitLength(num)
  IN  IF ret < 4 THEN 4 ELSE IF ret > 16 THEN 16 ELSE ret

\* struct PyramidInfo, zero-initialised
PyramidInfoZero == [level |-> 0, left_ref_poc_diff |-> 0, right_ref_poc_diff |-> 0]

\* The entries the call writes, as a function over 0 .. len-1 (info[0] is
\* the pointer the call was given).
RECURSIVE _set_pyramid_info(_, _, _)
_set_pyramid_info(len, current_level, highest_level) ==
  IF current_level = highest_level \/ len = 1
  THEN [index \in 0 .. len - 1 |->
          [level |-> current_level,
           left_ref_poc_diff |-> (index + 1) * (-2),
           right_ref_poc_diff |-> (len - index) * 2]]
  ELSE LET index == len \div 2
           left  == IF index > 0
                    THEN _set_pyramid_info(index, current_level + 1, highest_level)
                    ELSE << >>
           right == IF index + 1 < len
                    THEN _set_pyramid_info(len - (index + 1), current_level + 1,
                                           highest_level)
                    ELSE << >>
       IN  [i \in 0 .. len - 1 |->
              IF i < index THEN left[i]
              ELSE IF i = index
                   THEN [level |-> current_level,
                         left_ref_poc_diff |-> (index + 1) * (-2),
                         right_ref_poc_diff |-> (len - index) * 2]
                   ELSE right[i - (index + 1)]]

\* One entry of gop.frame_types, zero-initialised.
FrameTypeZero ==
  [slice_type |-> "B", is_ref |-> FALSE, pyramid_level |-> 0,
   left_ref_poc_diff |-> 0, right_ref_poc_diff |-> 0]

\* Which of the P positions 1 .. i-1 have already consumed one of the
\* i_frames insertions: the loop's running i_frames counter.
RECURSIVE IFramesLeft(_, _)
IFramesLeft(g, i) ==
  IF i <= 1 THEN g.num_iframes
  ELSE LET before == IFramesLeft(g, i - 1)
           j == i - 1
       IN  IF /\ g.ip_period # 0
              /\ j % g.ip_period = 0
              /\ g.i_period # 0 /\ j % g.i_period = 0
              /\ before > 0
           THEN before - 1 ELSE before

\* A table whose every entry, the first included, is an I slice that is no
\* reference.
_create_i_frame_types(g) ==
  [i \in DOMAIN g.frame_types |->
     [g.frame_types[i] EXCEPT !.slice_type = "I", !.is_ref = FALSE]]

_create_gop_frame_types(g) ==
  LET pyramid_info ==
        IF g.highest_pyramid_level > 0
        THEN _set_pyramid_info(g.num_bframes, 0, g.highest_pyramid_level)
        ELSE [k \in 0 .. 30 |-> PyramidInfoZero]
      entry(i) ==
        IF i = 0
        THEN [g.frame_types[i] EXCEPT !.slice_type = "I", !.is_ref = TRUE]
        ELSE IF g.ip_period = 0
        THEN [g.frame_types[i] EXCEPT !.slice_type = "I", !.is_ref = FALSE]
        ELSE IF i % g.ip_period # 0
        THEN LET pyramid_index == (i % g.ip_period) - 1
                 info == IF pyramid_index \in DOMAIN pyramid_info
                         THEN pyramid_info[pyramid_index] ELSE PyramidInfoZero
             IN  [slice_type |-> "B",
                  pyramid_level |-> info.level,
                  is_ref |-> info.level < g.highest_pyramid_level,
                  left_ref_poc_diff |-> info.left_ref_poc_diff,
                  right_ref_poc_diff |-> info.right_ref_poc_diff]
        ELSE IF g.i_period # 0 /\ i % g.i_period = 0 /\ IFramesLeft(g, i) > 0
        THEN [g.frame_types[i] EXCEPT !.slice_type = "I", !.is_ref = TRUE]
        ELSE [g.frame_types[i] EXCEPT !.slice_type = "P", !.is_ref = TRUE]
      filled == [i \in DOMAIN g.frame_types |->
                   IF i < g.idr_period THEN entry(i) ELSE g.frame_types[i]]
  IN  IF g.idr_period > 1 /\ g.ip_period > 0
      THEN [filled EXCEPT ![g.idr_period - 1].slice_type = "P",
                          ![g.idr_period - 1].is_ref = TRUE]
      ELSE filled
\* gop as g_object_new leaves it (zero-filled); frame_types is kept for the
\* indices the element can read: 0 .. idr_period-1, and 0 when idr_period = 0.
GopZero ==
  [idr_period |-> 0, total_idr_count |-> 0, ip_period |-> 0, i_period |-> 0,
   num_bframes |-> 0, b_pyramid |-> FALSE, highest_pyramid_level |-> 0,
   num_iframes |-> 0, frame_types |-> [i \in {0} |-> FrameTypeZero],
   cur_frame_index |-> 0, cur_frame_num |-> 0,
   max_frame_num |-> 0, log2_max_frame_num |-> 0,
   max_pic_order_cnt |-> 0, log2_max_pic_order_cnt |-> 0,
   num_ref_frames |-> 0, ref_num_list0 |-> 0, ref_num_list1 |-> 0,
   num_reorder_frames |-> 0]

\* create_poc: the tail of _generate_gop_structure.
create_poc(g) ==
  LET log2 == _get_log2_max_num(g.idr_period)
      sized == [g EXCEPT
                  !.log2_max_frame_num = log2,
                  !.max_frame_num = 2 ^ log2,
                  !.log2_max_pic_order_cnt = log2 + 1,
                  !.max_pic_order_cnt = 2 ^ (log2 + 1),
                  !.frame_types =
                     [i \in 0 .. Max(g.idr_period, 1) - 1 |->
                        IF i \in DOMAIN g.frame_types
                        THEN g.frame_types[i] ELSE FrameTypeZero]]
  IN  [sized EXCEPT !.frame_types = _create_gop_frame_types(sized)]

\* The while loop that counts the pyramid levels; gop.highest_pyramid_level
\* is incremented from whatever it held.
RECURSIVE PyramidLevels(_, _, _, _)
PyramidLevels(b_frames, b_refs, num_ref_frames, level) ==
  IF b_frames = 0 THEN level
  ELSE IF b_refs + 1 + 2 > num_ref_frames THEN level
  ELSE PyramidLevels(b_frames \div 2, b_refs + 1, num_ref_frames, level + 1)

\* The while loop that balances forward and backward references.
RECURSIVE BalanceRefs(_, _, _, _, _)
BalanceRefs(l0, l1, num_bframes, gop_ref_num, list1) ==
  IF /\ num_bframes * l1 <= 16
     /\ l1 <= gop_ref_num
     /\ l1 < list1
     /\ l0 \div l1 > 4
  THEN BalanceRefs(l0 - 1, l1 + 1, num_bframes, gop_ref_num, list1)
  ELSE <<l0, l1>>

\* g: self->gop on entry; fps: the input state's frame rate; caps: what the
\* max_num_reference vfunc answers.
_generate_gop_structure(g, fps, caps) ==
  LET idr0 == IF g.idr_period = 0
              THEN (fps.n + fps.d - 1) \div fps.d ELSE g.idr_period
      idr  == IF idr0 > 1024 THEN 1024 ELSE idr0
      nb0  == IF idr > 8
              THEN (IF g.num_bframes > (idr - 1) \div 2
                    THEN (idr - 1) \div 2 ELSE g.num_bframes)
              ELSE (IF g.num_bframes > U32Sub(U32Sub(idr, 1), 1)
                    THEN (IF idr > 1 THEN idr - 1 - 1 ELSE 0)
                    ELSE g.num_bframes)
      l0a  == IF caps.ok THEN caps.list0 ELSE 1
      l1a  == IF caps.ok THEN caps.list1 ELSE 0
      list0 == Min(l0a, g.num_ref_frames)
      l1b  == Min(l1a, g.num_ref_frames)
  IN
  IF list0 = 0
  THEN create_poc([g EXCEPT
         !.idr_period = idr, !.num_ref_frames = 0, !.ip_period = 0,
         !.num_bframes = 0, !.b_pyramid = FALSE, !.highest_pyramid_level = 0,
         !.num_iframes = U32Sub(idr, 1),
         !.ref_num_list0 = 0, !.ref_num_list1 = 0])
  ELSE
  LET few  == g.num_ref_frames <= 1
      nb1  == IF few THEN 0 ELSE nb0
      l1c  == IF few THEN 0 ELSE l1b
      pyr1 == IF g.b_pyramid /\ g.num_ref_frames <= 2 THEN FALSE ELSE g.b_pyramid
      nol1 == l1c = 0 /\ nb1 > 0
      nb   == IF nol1 THEN 0 ELSE nb1
      pyr2 == IF nol1 THEN FALSE ELSE pyr1
      l1d  == IF nb = 0 THEN 0 ELSE l1c
      pyr3 == IF nb <= 1 THEN FALSE ELSE pyr2
      list1 == IF pyr3 THEN 1 ELSE l1d
      nref == IF g.num_ref_frames > list0 + list1
              THEN list0 + list1 ELSE g.num_ref_frames
      ref0 == (idr + nb) \div (nb + 1)
      gop_ref_num == IF nb > 0 /\ idr % (nb + 1) # 1 THEN ref0 + 1 ELSE ref0
      bal  == BalanceRefs(nref - 1, 1, nb, gop_ref_num, list1)
      rl0  == IF nb = 0 THEN nref
              ELSE IF pyr3 THEN nref - list1
              ELSE Min(bal[1], list0)
      rl1  == IF nb = 0 THEN 0 ELSE IF pyr3 THEN list1 ELSE bal[2]
      hpl  == IF nb # 0 /\ pyr3
              THEN PyramidLevels(nb \div 2, 0, nref, g.highest_pyramid_level)
              ELSE g.highest_pyramid_level
      p_frames == Max(gop_ref_num - 1, 0)
      nif  == IF g.num_iframes > p_frames THEN p_frames ELSE g.num_iframes
      ip   == IF nif > 0
              THEN (gop_ref_num \div (nif + 1)) * (nb + 1) ELSE g.i_period
  IN  create_poc([g EXCEPT
         !.idr_period = idr, !.num_bframes = nb, !.b_pyramid = pyr3,
         !.num_ref_frames = nref, !.ref_num_list0 = rl0, !.ref_num_list1 = rl1,
         !.highest_pyramid_level = hpl, !.ip_period = 1 + nb,
         !.num_iframes = nif, !.i_period = ip])
(* ------------------- the program state, as one record ------------------ *)
(* The operations below are written over a record w of the whole program  *)
(* state (World, after the VARIABLES) so that a handler that calls several*)
(* of them is one composition.  w.aborted is set by a failed g_assert in a *)
(* build that keeps assertions; w.ok and w.out_frame carry what the last   *)
(* call returned.                                                          *)

\* Run F unless the process has aborted.
Bind(w, F(_)) == IF w.aborted THEN w ELSE F(w)

\* g_assert (cond): aborts unless the build defines G_DISABLE_ASSERT.
\* w.assert_failed records that the run has met a failing assertion, which
\* is when the two builds part.
g_assert(w, cond) ==
  IF cond THEN w
  ELSE [w EXCEPT !.aborted = w.glib_asserts, !.assert_failed = TRUE]

Last(q) == q[Len(q)]
Front(q) == SubSeq(q, 1, Len(q) - 1)
Range(q) == {q[i] : i \in 1 .. Len(q)}
RemoveAt(q, i) == SubSeq(q, 1, i - 1) \o SubSeq(q, i + 1, Len(q))

\* g_queue_remove: drops the first occurrence of x, if any.
QueueRemove(q, x) ==
  IF x \in Range(q)
  THEN RemoveAt(q, CHOOSE i \in 1 .. Len(q) :
                     q[i] = x /\ \A j \in 1 .. i - 1 : q[j] # x)
  ELSE q

\* The sort keys of the elements: _sort_by_frame_num and
\* _frame_num_asc_compare, _frame_num_des_compare, _poc_asc_compare and
\* _poc_des_compare.
SortKey(frames, id, by) ==
  IF by = "frame_num" THEN frames[id].frame_num
  ELSE IF by = "frame_num_des" THEN 0 - frames[id].frame_num
  ELSE IF by = "poc_asc" THEN frames[id].poc
  ELSE 0 - frames[id].poc

\* g_queue_sort / g_qsort_with_data: a stable sort of frame ids.
RECURSIVE InsertSorted(_, _, _, _)
InsertSorted(q, x, frames, by) ==
  IF q = << >> THEN <<x>>
  ELSE IF SortKey(frames, x, by) < SortKey(frames, Head(q), by) THEN <<x>> \o q
  ELSE <<Head(q)>> \o InsertSorted(Tail(q), x, frames, by)

RECURSIVE SortBy(_, _, _)
SortBy(q, frames, by) ==
  IF q = << >> THEN << >>
  ELSE InsertSorted(SortBy(Front(q), frames, by), Last(q), frames, by)

(* ------------------ vkh265enc.c: frames and reordering ----------------- *)
\* A GstBuffer as far as its size goes: whether there is one, the offset of
\* its data in its memories and its size.
NoBuffer == [set |-> FALSE, offset |-> 0, size |-> 0]

\* GstVulkanEncodeQueryResult before any query was read.
NoQueryResult == [complete |-> FALSE, offset |-> 0, data_size |-> 0]

\* gst_vulkan_h265_encode_frame_new, with the GstVideoCodecFrame flags the
\* element reads and writes (sync_point, force_keyframe).  gop_index records
\* the table position the frame was given, list0, list1 and refs_at_encode
\* what its encode was given, encoded whether that encode succeeded.  The
\* fields of the frame's GstVulkanEncodePicture are kept with it:
\* packed_headers, out_buffer, and what the encode handed to the device
\* (referenceSlotCount, pReferenceSlots as the pictures the slots hold) and
\* read back from it (encode_res).  g_new leaves ref_list_info as it finds
\* the memory.
gst_vulkan_h265_encode_frame_new(force) ==
  [type |-> "I", is_ref |-> TRUE, pyramid_level |-> 0,
   left_ref_poc_diff |-> 0, right_ref_poc_diff |-> 0,
   poc |-> 0, frame_num |-> 0, unused_for_reference_pic_num |-> -1,
   total_frame_count |-> 0, picture |-> FALSE, slotIndex |-> -1, nb_refs |-> 0,
   sync_point |-> FALSE, force_keyframe |-> force, gop_index |-> -1,
   list0 |-> << >>, list1 |-> << >>, refs_at_encode |-> << >>,
   encoded |-> FALSE,
   packed_headers |-> << >>, out_buffer |-> NoBuffer,
   encode_res |-> NoQueryResult,
   referenceSlotCount |-> 0, pReferenceSlots |-> {},
   ref_pic_list_modification_flag_l0 |-> "uninitialized",
   ref_pic_list_modification_flag_l1 |-> "uninitialized",
   slice_hdrs |-> << >>,
   controls |-> << >>, begin_rate_control |-> FALSE,
   rate_control_info |-> [rateControlMode |-> "default", layerCount |-> 0,
                          pLayers |-> [call |-> NULL, averageBitrate |-> 0,
                                       maxBitrate |-> 0]]]

\* gst_vulkan_h265enc_new_frame; the new frame's id is Len(w.frames).
gst_vulkan_h265enc_new_frame(w, force) ==
  LET fr == [gst_vulkan_h265_encode_frame_new(force) EXCEPT
               !.frame_num = w.input_frame_count,
               !.total_frame_count = w.input_frame_count]
  IN  [w EXCEPT !.frames = Append(@, fr),
                !.input_frame_count = @ + 1,
                !.ok = TRUE]

\* The part of _push_one_frame under "if (gst_frame)".
PushFrame(w, f) ==
  LET newgop == w.gop.cur_frame_index = w.gop.idr_period
      w1 == IF newgop
            THEN LET a == g_assert(w, w.reorder_list = << >>)
                 IN  Bind(a, LAMBDA x : [x EXCEPT !.gop.cur_frame_index = 0,
                                                  !.gop.cur_frame_num = 0])
            ELSE w
      place(x) ==
        LET idx == x.gop.cur_frame_index
            ft  == x.gop.frame_types[idx]
            fr0 == [x.frames[f] EXCEPT
                      !.poc = (idx * 2) % x.gop.max_pic_order_cnt,
                      !.sync_point = (idx = 0) \/ @,
                      !.type = IF x.frames[f].force_keyframe THEN "I"
                               ELSE ft.slice_type,
                      !.is_ref = IF x.frames[f].force_keyframe THEN TRUE
                                 ELSE ft.is_ref,
                      !.pyramid_level = ft.pyramid_level,
                      !.left_ref_poc_diff = ft.left_ref_poc_diff,
                      !.right_ref_poc_diff = ft.right_ref_poc_diff,
                      !.gop_index = idx]
        IN  [x EXCEPT !.frames[f] = fr0,
                      !.ref_list = IF idx = 0 THEN << >> ELSE @,
                      !.gop.cur_frame_index = idx + 1,
                      !.reorder_list = Append(@, f)]
  IN  Bind(w1, place)

\* _push_one_frame (base, gst_frame, last); f = NULL pushes nothing.
_push_one_frame(w, f, last) ==
  IF ~(w.gop.cur_frame_index <= w.gop.idr_period)
  THEN [w EXCEPT !.ok = FALSE]
  ELSE
  LET w1 == IF f # NULL THEN PushFrame(w, f) ELSE w
      endgop(x) ==
        IF last /\ x.gop.cur_frame_index < x.gop.idr_period
        THEN LET x1 == [x EXCEPT !.gop.cur_frame_index = x.gop.idr_period]
                 t  == Last(x.reorder_list)
             IN  IF x.reorder_list # << >> /\ x.frames[t].type = "B"
                 THEN [x1 EXCEPT !.frames[t].type = "P",
                                 !.frames[t].is_ref = TRUE]
                 ELSE x1
        ELSE x
  IN  Bind(Bind(w1, endgop), LAMBDA x : [x EXCEPT !.ok = TRUE])
\* g_queue_foreach (&base->ref_list, _count_backward_ref_num, &count): the
\* state after its assertions, and the number it counts.
BackwardRefsChecked(w, poc) ==
  g_assert(w, \A i \in 1 .. Len(w.ref_list) : w.frames[w.ref_list[i]].poc # poc)

\* A count of every reference, whatever its POC.
_count_ref_num(w, poc) == Len(w.ref_list)

_count_backward_ref_num(w, poc) ==
  Cardinality({i \in 1 .. Len(w.ref_list) : w.frames[w.ref_list[i]].poc > poc})

\* The tail of the list taken, whatever its level.
PyramidCandidateTail(w, n) == n

\* The first loop of _pop_pyramid_b_frame over reorder_list[1 .. n]: the
\* index it leaves in b_frame.
RECURSIVE PyramidCandidate(_, _)
PyramidCandidate(w, n) ==
  IF n = 1 THEN 1
  ELSE LET best == PyramidCandidate(w, n - 1)
           b    == w.frames[w.reorder_list[best]]
           vkf  == w.frames[w.reorder_list[n]]
       IN  IF b.pyramid_level < vkf.pyramid_level THEN n
           ELSE IF b.poc > vkf.poc THEN n
           ELSE best

\* The candidate taken as it is, its references not looked for.
PyramidNoWalk(w, index, fuel) == <<w, index>>

\* The "again" loop: from candidate index, move to a frame of reorder_list
\* that sits at one of the candidate's reference POCs, until none does.
\* Returns <<state, index>>; a walk that never ends leaves the caller hung,
\* recorded like an abort.
RECURSIVE PyramidAgain(_, _, _)
PyramidAgain(w, index, fuel) ==
  LET b  == w.frames[w.reorder_list[index]]
      w1 == g_assert(w, b.left_ref_poc_diff # 0)
      w2 == Bind(w1, LAMBDA x : g_assert(x, b.right_ref_poc_diff # 0))
      hits == {i \in 1 .. Len(w.reorder_list) :
                 /\ i # index
                 /\ \/ w.frames[w.reorder_list[i]].poc = b.poc + b.left_ref_poc_diff
                    \/ w.frames[w.reorder_list[i]].poc = b.poc + b.right_ref_poc_diff}
  IN  IF w2.aborted THEN <<w2, index>>
      ELSE IF hits = {} THEN <<w2, index>>
      ELSE IF fuel = 0 THEN <<[w2 EXCEPT !.aborted = TRUE], index>>
      ELSE PyramidAgain(w2, CHOOSE i \in hits : \A j \in hits : i <= j, fuel - 1)

\* _pop_pyramid_b_frame: w.out_frame is the frame taken, or NULL.
_pop_pyramid_b_frame(w) ==
  LET w0 == g_assert(w, w.gop.ref_num_list1 = 1)
      pick(x) ==
        LET r  == PyramidAgain(x, PyramidCandidate(x, Len(x.reorder_list)),
                               Len(x.reorder_list) * Len(x.reorder_list))
            x1 == r[1]
            index == r[2]
            b  == x1.reorder_list[index]
            x2 == Bind(x1, LAMBDA y : BackwardRefsChecked(y, y.frames[b].poc))
        IN  Bind(x2, LAMBDA y :
              IF _count_backward_ref_num(y, y.frames[b].poc) >= y.gop.ref_num_list1
              THEN [y EXCEPT !.reorder_list = RemoveAt(@, index), !.out_frame = b]
              ELSE [y EXCEPT !.out_frame = NULL])
  IN  Bind(w0, pick)

\* The frame numbered, the counter left where it was.
get_one_keep_num(w, frame) ==
  [w EXCEPT !.frames[frame].frame_num = w.gop.cur_frame_num,
            !.out_frame = frame, !.ok = TRUE]

\* The code of _pop_one_frame from the label get_one.
get_one(w, frame) ==
  LET w1 == g_assert(w, w.gop.cur_frame_num < w.gop.max_frame_num)
      num(x) ==
        [x EXCEPT !.frames[frame].frame_num = x.gop.cur_frame_num,
                  !.gop.cur_frame_num =
                     IF x.frames[frame].is_ref THEN @ + 1 ELSE @,
                  !.gop.total_idr_count =
                     IF x.gop.cur_frame_num = 0 THEN @ + 1 ELSE @,
                  !.out_frame = frame,
                  !.ok = TRUE]
  IN  Bind(w1, num)

_pop_one_frame(w) ==
  IF ~(w.gop.cur_frame_index <= w.gop.idr_period)
  THEN [w EXCEPT !.ok = FALSE]
  ELSE
  LET w0 == [w EXCEPT !.out_frame = NULL, !.ok = TRUE]
      q  == w.reorder_list
  IN
  IF q = << >> THEN w0
  ELSE IF w.frames[Last(q)].type # "B"
  THEN get_one([w0 EXCEPT !.reorder_list = Front(q)], Last(q))
  ELSE IF w.gop.b_pyramid
  THEN LET p == _pop_pyramid_b_frame(w0)
       IN  Bind(p, LAMBDA x : IF x.out_frame = NULL THEN x
                              ELSE get_one(x, x.out_frame))
  ELSE
  LET w1 == g_assert(w0, w.gop.ref_num_list1 > 0)
      rest(x) ==
        IF x.gop.cur_frame_index = x.gop.idr_period
        THEN get_one([x EXCEPT !.reorder_list = Tail(q)], Head(q))
        ELSE LET x1 == BackwardRefsChecked(x, x.frames[Head(q)].poc)
             IN  Bind(x1, LAMBDA y :
                   IF _count_backward_ref_num(y, y.frames[Head(q)].poc)
                        >= y.gop.ref_num_list1
                   THEN get_one([y EXCEPT !.reorder_list = Tail(q)], Head(q))
                   ELSE y)
  IN  Bind(w1, rest)

\* gst_vulkan_h265enc_reorder_frame (base, frame, bump_all, &out_frame)
gst_vulkan_h265enc_reorder_frame(w, f, bump_all) ==
  LET w1 == _push_one_frame(w, f, bump_all)
  IN  IF w1.aborted THEN w1
      ELSE IF ~w1.ok THEN [w1 EXCEPT !.out_frame = NULL]
      ELSE LET w2 == _pop_one_frame(w1)
           IN  IF w2.aborted \/ w2.ok THEN w2
               ELSE [w2 EXCEPT !.out_frame = NULL]
(* -------------------- gstvkoperation.c: the recorder ------------------- *)
\* The world also carries w.op (the GstVulkanOperation), w.device (the jobs
\* submitted to the queue whose fence is not signalled yet, oldest first)
\* and w.semaphore_value (barrier.parent.semaphore_value of each image
\* memory).  The model is of a build whose Vulkan headers define both
\* VK_KHR_synchronization2 and VK_KHR_timeline_semaphore.

\* GstBuffers of Vulkan images and their memories: buffer 1 has one plane,
\* buffer 2 has two.
Buffers == {1, 2}
Images == {1, 2, 3}
BufferMems(b) == IF b = 1 THEN <<1>> ELSE <<2, 3>>

\* What a command buffer does once submitted: the picture it encodes, the
\* pictures whose image it reads as references, the picture whose image it
\* writes as reconstructed picture.
NoCmds == [pic |-> NULL, reads |-> {}, write |-> NULL]

\* GstVulkanOperation after g_object_new, before constructed.  object_locked
\* is the GST_OBJECT_LOCK of the recorder as a call leaves it.
OperationZero ==
  [cmd_buf |-> FALSE, locked |-> FALSE, object_locked |-> FALSE,
   has_sync2 |-> FALSE, has_timeline |-> FALSE, frames |-> << >>, barriers |-> << >>,
   wait_semaphores |-> << >>, signal_semaphores |-> << >>, cmds |-> NoCmds]

\* gst_vulkan_operation_new: constructed reads the device's extensions.
gst_vulkan_operation_new(sync2, timeline) ==
  [OperationZero EXCEPT !.has_sync2 = sync2, !.has_timeline = timeline]

\* gst_vulkan_operation_discard_dependencies
gst_vulkan_operation_discard_dependencies(w) ==
  [w EXCEPT !.op.frames = << >>, !.op.wait_semaphores = << >>,
            !.op.signal_semaphores = << >>]

\* gst_vulkan_operation_reset
gst_vulkan_operation_reset(w) ==
  [gst_vulkan_operation_discard_dependencies(w) EXCEPT
     !.op.barriers = << >>, !.op.cmd_buf = FALSE]

\* gst_vulkan_trash_list_wait (priv->trash_list, G_MAXUINT64) returns once
\* every fence of the list is signalled.
UnwaitedFences(w) == TRUE

FencesSignalled(w) == w.device = << >>

\* gst_vulkan_operation_wait, once the wait is over.
gst_vulkan_operation_wait(w) ==
  LET w1 == gst_vulkan_operation_discard_dependencies(w)
  IN  [w1 EXCEPT !.op.cmd_buf = FALSE, !.ok = TRUE]

\* gst_vulkan_operation_begin; fail names the call that fails: "pool"
\* (gst_vulkan_command_pool_create), "begin" (vkBeginCommandBuffer) or
\* "none".  A command buffer left by an earlier begin is waited for first.
gst_vulkan_operation_begin(w, fail) ==
  LET w1 == IF w.op.cmd_buf THEN gst_vulkan_operation_wait(w) ELSE w
  IN  IF fail = "pool" THEN [w1 EXCEPT !.op.cmd_buf = FALSE, !.ok = FALSE]
      ELSE IF fail = "begin"
      THEN [w1 EXCEPT !.op.cmd_buf = FALSE, !.op.locked = FALSE, !.ok = FALSE]
      ELSE [w1 EXCEPT !.op.cmd_buf = TRUE, !.op.locked = TRUE,
                      !.op.cmds = NoCmds, !.ok = TRUE]

\* The loop of gst_vulkan_operation_end over deps.frames: each memory of a
\* frame flagged semaphored has its semaphore value incremented.
Increments(frames, m) ==
  Cardinality({i \in 1 .. Len(frames) :
                 /\ frames[i].semaphored
                 /\ \E j \in 1 .. Len(frames[i].mem) : frames[i].mem[j] = m})

EndIncrementsAlways(w, fail) ==
  [m \in Images |-> w.semaphore_value[m] + Increments(w.op.frames, m)]

SemaphoresAfterEnd(w, fail) ==
  IF w.op.cmd_buf /\ fail = "none"
  THEN [m \in Images |-> w.semaphore_value[m] + Increments(w.op.frames, m)]
  ELSE w.semaphore_value

\* gst_vulkan_operation_end; fail names the call that fails: "fence"
\* (gst_vulkan_device_create_fence), "end" (vkEndCommandBuffer), "submit"
\* (vkQueueSubmit or vkQueueSubmit2KHR) or "none".
gst_vulkan_operation_end(w, fail) ==
  IF ~w.op.cmd_buf THEN [w EXCEPT !.ok = FALSE]
  ELSE IF fail = "fence" THEN [w EXCEPT !.ok = FALSE]
  ELSE IF fail \in {"end", "submit"}
  THEN [w EXCEPT !.op.locked = FALSE, !.ok = FALSE,
                 !.semaphore_value = SemaphoresAfterEnd(w, fail)]
  ELSE [w EXCEPT !.op.locked = FALSE,
                 !.device = Append(@, w.op.cmds),
                 !.semaphore_value = SemaphoresAfterEnd(w, fail),
                 !.op.frames = [i \in 1 .. Len(w.op.frames) |->
                                  [w.op.frames[i] EXCEPT !.updated = FALSE,
                                                         !.semaphored = FALSE]],
                 !.op.barriers = << >>,
                 !.ok = TRUE]

\* GST_VIDEO_MAX_PLANES
GST_VIDEO_MAX_PLANES == 4

\* _dep_set_frame: the memories of the buffer, then NULL.
_dep_set_frame(buffer) ==
  [i \in 1 .. GST_VIDEO_MAX_PLANES |->
     IF i <= Len(BufferMems(buffer)) THEN BufferMems(buffer)[i] ELSE NULL]

\* _dep_is_frame
_dep_is_frame(dep, buffer) ==
  \A i \in 1 .. Len(BufferMems(buffer)) : dep.mem[i] = BufferMems(buffer)[i]

\* The index of the first dependency frame that is the buffer, or 0.
FindDep(frames, buffer) ==
  LET S == {i \in 1 .. Len(frames) : _dep_is_frame(frames[i], buffer)}
  IN  IF S = {} THEN 0 ELSE CHOOSE i \in S : \A j \in S : i <= j

\* gst_vulkan_operation_update_frame.  A frame it appends is a stack
\* variable of which only mem is set: its semaphored flag is whatever the
\* stack held (garbage).
gst_vulkan_operation_update_frame(w, buffer, garbage) ==
  LET i == FindDep(w.op.frames, buffer)
      frames == IF i = 0
                THEN Append(w.op.frames, [mem |-> _dep_set_frame(buffer),
                                          updated |-> TRUE,
                                          semaphored |-> garbage])
                ELSE [w.op.frames EXCEPT ![i].updated = TRUE]
  IN  [w EXCEPT !.op.frames = frames]

\* gst_vulkan_operation_add_frame_barrier: one barrier per memory of the
\* frame, then update_frame.  Without synchronization2 an access mask that
\* does not fit VkAccessFlags is refused.  image tells whether the memories
\* of the buffer are Vulkan image memories: when the first one is not, the
\* call returns inside its loop with the object lock held.
gst_vulkan_operation_add_frame_barrier(w, buffer, image, wide_access, garbage) ==
  IF ~image THEN [w EXCEPT !.op.object_locked = TRUE, !.ok = FALSE]
  ELSE IF ~w.op.has_sync2 /\ wide_access THEN [w EXCEPT !.ok = FALSE]
  ELSE LET w1 == [w EXCEPT !.op.barriers = @ \o BufferMems(buffer)]
       IN  [gst_vulkan_operation_update_frame(w1, buffer, garbage)
              EXCEPT !.ok = TRUE]

\* gst_vulkan_operation_add_dependecy_frame.  Its search loop leaves only by
\* returning, so a frame that is not yet flagged is always appended.  Without
\* synchronization2 or timeline semaphores the call falls through to its
\* last return, which has no unlock before it.
gst_vulkan_operation_add_dependecy_frame(w, buffer) ==
  IF \E i \in 1 .. Len(w.op.frames) :
       _dep_is_frame(w.op.frames[i], buffer) /\ w.op.frames[i].semaphored
  THEN [w EXCEPT !.ok = TRUE]
  ELSE
  LET w1 == [w EXCEPT !.op.frames =
                        Append(@, [mem |-> _dep_set_frame(buffer),
                                   updated |-> FALSE, semaphored |-> TRUE])]
      mems == BufferMems(buffer)
  IN  IF w.op.has_sync2 /\ w.op.has_timeline
      THEN [w1 EXCEPT
              !.op.wait_semaphores =
                 @ \o [i \in 1 .. Len(mems) |->
                         [semaphore |-> mems[i],
                          value |-> w.semaphore_value[mems[i]]]],
              !.op.signal_semaphores =
                 @ \o [i \in 1 .. Len(mems) |->
                         [semaphore |-> mems[i],
                          value |-> w.semaphore_value[mems[i]] + 1]],
              !.ok = TRUE]
      ELSE [w1 EXCEPT !.op.object_locked = TRUE, !.ok = FALSE]

(* ------------------- gstvkencoder.c: DPB slot handling ----------------- *)
\* VkVideoReferenceSlotInfoKHR ref_slots[16], zero-filled: the slot index
\* written into each entry and the picture whose resource it points to.
RefSlotsZero == [i \in 0 .. REF_SLOTS_LEN - 1 |-> [slotIndex |-> 0, pic |-> NULL]]

\* VkVideoEncodeRateControlInfoKHR of zeroes.  pLayers is a pointer to the
\* rate_control_layer local of one gst_vulkan_encoder_encode call: call is
\* the picture of that call (NULL for a null pointer), the bitrates are
\* what the call left in its local.
RateControlInfoZero ==
  [rateControlMode |-> "default", layerCount |-> 0,
   pLayers |-> [call |-> NULL, averageBitrate |-> 0, maxBitrate |-> 0]]

\* GstVulkanEncoderPrivate after g_object_new.  The handles are modelled by
\* whether they are set; the properties are at their defaults.
EncoderZero ==
  [session_params |-> FALSE, profile_caps |-> FALSE, exec |-> FALSE,
   session |-> FALSE, started |-> FALSE, encoding_setup |-> FALSE,
   ref_slots |-> RefSlotsZero, ref_slots_num |-> 0, current_slot_index |-> 0,
   maxDpbSlots |-> 0,
   prop |-> [rate_control |-> "default", average_bitrate |-> 0,
             quality_level |-> 0],
   rate_control_info |-> RateControlInfoZero]

\* gst_vulkan_encoder_set_property: PROP_RATE_CONTROL, PROP_AVERAGE_BITRATE
\* and PROP_QUALITY_LEVEL.
gst_vulkan_encoder_set_property(w, rate_control, average_bitrate, quality_level) ==
  [w EXCEPT !.enc.prop = [rate_control |-> rate_control,
                          average_bitrate |-> average_bitrate,
                          quality_level |-> quality_level]]

\* gst_vulkan_encoder_encode, the second "if (!priv->encoding_setup)": a
\* first encode fills rate_control_info, with pLayers pointing at the
\* call's local rate_control_layer.
EncodeRateControl(e, pic) ==
  LET averageBitrate == IF e.prop.average_bitrate < DeviceMaxBitrate
                        THEN e.prop.average_bitrate ELSE DeviceMaxBitrate
      layered == e.prop.rate_control \in {"cbr", "vbr"}
  IN  IF e.encoding_setup THEN e
      ELSE [e EXCEPT !.rate_control_info =
              [rateControlMode |-> e.prop.rate_control,
               layerCount |-> IF layered THEN 1 ELSE 0,
               pLayers |-> IF layered
                           THEN [call |-> pic,
                                 averageBitrate |-> averageBitrate,
                                 maxBitrate |->
                                   IF e.prop.rate_control = "cbr"
                                   THEN averageBitrate
                                   ELSE DeviceMaxBitrate]
                           ELSE RateControlInfoZero.pLayers]]

\* gst_vulkan_encoder_encode, "if (reset_cctrl)": the controls a first
\* encode records.
EncodeControls(e) ==
  IF e.encoding_setup THEN << >>
  ELSE <<"RESET">>
       \o (IF e.prop.quality_level # 0
              /\ e.prop.quality_level <= DeviceMaxQualityLevels
           THEN <<"ENCODE_QUALITY_LEVEL">> ELSE << >>)
       \o (IF e.prop.rate_control # "default"
           THEN <<"ENCODE_RATE_CONTROL">> ELSE << >>)

\* gst_vulkan_encoder_encode, "if (!priv->encoding_setup)": a first encode
\* restarts the slot bookkeeping.
EncodeSetup(e) ==
  IF ~e.encoding_setup
  THEN [e EXCEPT !.ref_slots_num = 0, !.current_slot_index = 0]
  ELSE e

\* gst_vulkan_encoder_encode, "if (pic->is_ref)": the slot the picture gets
\* and the encoder private data afterwards.  The next slot is taken
\* cyclically, whatever it holds.
AssignSlot(e, pic) ==
  LET cur == IF e.current_slot_index >= e.maxDpbSlots THEN 0
             ELSE e.current_slot_index
  IN  [e EXCEPT !.ref_slots[cur] = [slotIndex |-> -1, pic |-> pic],
                !.current_slot_index = cur + 1,
                !.ref_slots_num = IF @ < e.maxDpbSlots THEN @ + 1 ELSE @]

SlotOf(e, pic) ==
  IF e.current_slot_index >= e.maxDpbSlots THEN 0 ELSE e.current_slot_index

\* gst_vulkan_encoder_start (self, profile, enc_params, error).  fail names
\* the step that fails ("profile", "caps", "version", "format", "session",
\* "params", "pool", "query", "flush") or is "none"; slots is the
\* maxDpbSlots the device reports.  The flush at the end submits one job and
\* waits for it.
StartSteps ==
  {"profile", "caps", "version", "format", "session", "params", "pool",
   "query", "flush"}

gst_vulkan_encoder_start(w, fail, slots, sync2, timeline) ==
  IF w.enc.started THEN [w EXCEPT !.ok = TRUE]
  ELSE IF fail = "profile" THEN [w EXCEPT !.ok = FALSE]
  ELSE IF fail = "caps" THEN [w EXCEPT !.enc.maxDpbSlots = 0, !.ok = FALSE]
  ELSE
  LET w1 == [w EXCEPT !.enc.maxDpbSlots = slots]
  IN
  IF fail = "version" THEN [w1 EXCEPT !.ok = FALSE]
  ELSE IF fail \in {"format", "session"}
  THEN [w1 EXCEPT !.enc.profile_caps = FALSE, !.ok = FALSE]
  ELSE
  LET w2 == [w1 EXCEPT !.enc.session = TRUE]
  IN
  IF fail = "params"
  THEN [w2 EXCEPT !.enc.session_params = FALSE, !.enc.profile_caps = FALSE,
                  !.ok = FALSE]
  ELSE
  LET w3 == [w2 EXCEPT !.enc.session_params = TRUE]
  IN
  IF fail = "pool" THEN [w3 EXCEPT !.enc.profile_caps = FALSE, !.ok = FALSE]
  ELSE
  LET w4 == [w3 EXCEPT !.enc.exec = TRUE,
                       !.op = gst_vulkan_operation_new(sync2, timeline)]
  IN
  IF fail \in {"query", "flush"}
  THEN [w4 EXCEPT !.enc.profile_caps = FALSE, !.ok = FALSE]
  ELSE [w4 EXCEPT !.enc.profile_caps = TRUE, !.enc.started = TRUE, !.ok = TRUE]

\* A stop that reports an encoder that is not started as an error.
gst_vulkan_encoder_stop_once(w) ==
  IF ~w.enc.started THEN [w EXCEPT !.ok = FALSE]
  ELSE [w EXCEPT !.enc.session = FALSE, !.enc.profile_caps = FALSE,
                 !.enc.session_params = FALSE, !.enc.exec = FALSE,
                 !.op = OperationZero, !.enc.started = FALSE, !.ok = TRUE]

\* gst_vulkan_encoder_stop (self)
gst_vulkan_encoder_stop(w) ==
  IF ~w.enc.started THEN [w EXCEPT !.ok = TRUE]
  ELSE [w EXCEPT !.enc.session = FALSE, !.enc.profile_caps = FALSE,
                 !.enc.session_params = FALSE, !.enc.exec = FALSE,
                 !.op = OperationZero, !.enc.started = FALSE, !.ok = TRUE]

\* The pictures CmdEncodeVideo reads as references: pReferenceSlots points
\* at ref_slots[ref_pics[0]->slotIndex] and referenceSlotCount is nb_refs,
\* so it reads whatever picture resources those entries hold now.
ReferencesRead(e, first, nb_refs) ==
  {e.ref_slots[i].pic : i \in {j \in first .. first + nb_refs - 1 :
                                 j \in 0 .. REF_SLOTS_LEN - 1}} \ {NULL}

\* gst_vulkan_encoder_add_packed_header (self, pic, data, size)
gst_vulkan_encoder_add_packed_header(w, pic, kind, size) ==
  [w EXCEPT !.frames[pic].packed_headers =
              Append(@, [kind |-> kind, size |-> size]),
            !.ok = TRUE]

\* params_size: the bytes of the packed headers of a picture.
RECURSIVE params_size(_)
params_size(headers) ==
  IF headers = << >> THEN 0
  ELSE Head(headers).size + params_size(Tail(headers))

\* output_size, 3 * 1024 * 1024, already a multiple of the alignment.
OutputBufferBytes == 3145728

\* No buffer acquired from the pool.
OutBufferMissing(headers) == NoBuffer

\* gst_vulkan_video_codec_buffer_new and the loop that inserts the memory
\* of every packed header ahead of the device's memory.
OutBufferNew(headers) ==
  [set |-> TRUE, offset |-> 0, size |-> params_size(headers) + OutputBufferBytes]

\* gst_buffer_resize (buffer, offset, size): the data starts offset bytes
\* further into the memories and is size bytes long; a window that does
\* not fit is refused.
gst_buffer_resize(buffer, offset, size) ==
  IF offset + size <= buffer.size
  THEN [buffer EXCEPT !.offset = @ + offset, !.size = size]
  ELSE buffer

\* gst_vulkan_encoder_encode (self, pic, ref_pics, ref_pics_num) up to and
\* including gst_vulkan_operation_end.  gpu is what the device does with
\* the call: "ok", "begin_fail" (gst_vulkan_operation_begin fails),
\* "alloc_fail" (no output buffer: the call returns GST_FLOW_ERROR, which a
\* caller reads as TRUE), "end_fail" (the submit fails) or "query_fail"
\* (the query reports an incomplete encode).  ub is what undefined
\* behaviour does in this build, "benign" or "crash": the store to
\* ref_slots[-1] of a non-reference picture, and the reads of
\* pic->packed_headers after the loop over the headers has freed it.  A
\* non-intra picture with no reference picture dereferences
\* ref_pics[0] == NULL.
EncodeSubmitWith(w, e0, pic, ref_pics, gpu, ub) ==
  LET is_ref == w.frames[pic].is_ref
      nb_refs == w.frames[pic].nb_refs
      w0 == [w EXCEPT !.enc = e0]
      wb == IF ~e0.exec THEN [w0 EXCEPT !.ok = FALSE]
            ELSE gst_vulkan_operation_begin(
                   w0, IF gpu = "begin_fail" THEN "pool" ELSE "none")
  IN
  IF ~wb.ok THEN wb
  ELSE
  LET slot == SlotOf(e0, pic)
      e1 == IF is_ref THEN AssignSlot(e0, pic) ELSE e0
      e2 == [e1 EXCEPT !.encoding_setup = TRUE]
      w1 == [wb EXCEPT !.enc = e2,
                       !.frames[pic].slotIndex = IF is_ref THEN slot ELSE @]
  IN
  IF ~is_ref /\ ub = "crash" THEN [w1 EXCEPT !.aborted = TRUE]
  ELSE
  LET w2 == IF is_ref
            THEN [w1 EXCEPT !.enc.ref_slots[slot].slotIndex = slot]
            ELSE w1
  IN  IF gpu = "alloc_fail" THEN [w2 EXCEPT !.ok = TRUE]
      ELSE IF w.frames[pic].packed_headers # << >> /\ ub = "crash"
      THEN [w2 EXCEPT !.aborted = TRUE]
      ELSE IF nb_refs > 0 /\ ref_pics = << >>
      THEN [w2 EXCEPT !.aborted = TRUE]
      ELSE LET cmds == [pic |-> pic,
                        reads |-> IF nb_refs > 0
                                  THEN ReferencesRead(
                                         w2.enc,
                                         w2.frames[ref_pics[1]].slotIndex,
                                         nb_refs)
                                  ELSE {},
                        write |-> IF is_ref THEN pic ELSE NULL]
           IN  gst_vulkan_operation_end(
                 [w2 EXCEPT !.op.cmds = cmds,
                            !.frames[pic].out_buffer =
                               OutBufferNew(w.frames[pic].packed_headers),
                            !.frames[pic].referenceSlotCount = nb_refs,
                            !.frames[pic].pReferenceSlots = cmds.reads,
                            !.frames[pic].controls = EncodeControls(w.enc),
                            !.frames[pic].begin_rate_control =
                               /\ w.enc.encoding_setup
                               /\ w.enc.prop.rate_control # "default",
                            !.frames[pic].rate_control_info =
                               e0.rate_control_info],
                 IF gpu = "end_fail" THEN "submit" ELSE "none")

\* The rest of gst_vulkan_encoder_encode: gst_vulkan_operation_wait, once
\* it returns, and the query with what it reports (encode_res).  A complete
\* encode resizes the output buffer.
EncodeQueried(w, encode_res) ==
  LET pic == w.op.cmds.pic
      w1 == [gst_vulkan_operation_wait(w) EXCEPT
               !.ok = encode_res.complete,
               !.frames[pic].encoded = encode_res.complete,
               !.frames[pic].encode_res = encode_res]
  IN  IF encode_res.complete
      THEN [w1 EXCEPT !.frames[pic].out_buffer =
              gst_buffer_resize(@, encode_res.offset,
                                encode_res.data_size
                                  + params_size(w.frames[pic].packed_headers))]
      ELSE w1

\* The query of a device that writes one byte at the start of the buffer.
EncodeFinish(w, gpu) ==
  EncodeQueried(w, [complete |-> gpu # "query_fail", offset |-> 0,
                    data_size |-> 1])

\* Whether call state s has submitted a job since state w.
Submitted(w, s) == Len(s.device) > Len(w.device)

\* gst_vulkan_encoder_encode seen from its caller: one call, during which
\* the device finishes the job.
EncodeSubmit(w, pic, ref_pics, gpu, ub) ==
  EncodeSubmitWith(w, EncodeRateControl(EncodeSetup(w.enc), pic),
                   pic, ref_pics, gpu, ub)

gst_vulkan_encoder_encode(w, pic, ref_pics, gpu, ub) ==
  LET s == EncodeSubmit(w, pic, ref_pics, gpu, ub)
  IN  IF s.aborted \/ ~s.ok \/ ~Submitted(w, s) THEN s
      ELSE EncodeFinish([s EXCEPT !.device = << >>], gpu)

(* ---------------- vkh265enc.c: reference list and encode --------------- *)
\* The sliding window alone: the head of a full reference list.
_find_oldest_reference_frame(w, f) ==
  IF Len(w.ref_list) < w.gop.num_ref_frames THEN <<w, NULL>>
  ELSE <<w, IF w.ref_list = << >> THEN NULL ELSE Head(w.ref_list)>>

\* _find_unused_reference_frame: <<state, frame to drop or NULL>>.
_find_unused_reference_frame(w, f) ==
  LET refs == w.ref_list
      head == IF refs = << >> THEN NULL ELSE Head(refs)
      bs   == {i \in 1 .. Len(refs) : w.frames[refs[i]].type = "B"}
      low  == CHOOSE i \in bs : \A j \in bs :
                w.frames[refs[i]].poc < w.frames[refs[j]].poc \/ i <= j
      w1   == g_assert(w, \A i, j \in bs :
                i # j => w.frames[refs[i]].poc # w.frames[refs[j]].poc)
  IN  IF Len(refs) < w.gop.num_ref_frames THEN <<w, NULL>>
      ELSE IF ~w.gop.b_pyramid THEN <<w, head>>
      ELSE IF w.frames[f].type # "B" THEN <<w, head>>
      ELSE IF bs = {} THEN <<w, head>>
      ELSE IF w1.aborted THEN <<w1, NULL>>
      ELSE IF refs[low] # head
      THEN <<[w1 EXCEPT !.frames[f].unused_for_reference_pic_num =
                           w.frames[refs[low]].frame_num], refs[low]>>
      ELSE <<w1, refs[low]>>

Reverse(q) == [i \in 1 .. Len(q) |-> q[Len(q) + 1 - i]]
Truncate(q, n) == SubSeq(q, 1, Min(Len(q), n))

\* A list0 that keeps the farthest past references, not the nearest.
List0Farthest(w, f) ==
  IF w.frames[f].type = "I" THEN << >>
  ELSE Truncate(SortBy(SelectSeq(Reverse(w.ref_list),
                         LAMBDA r : ~(w.frames[r].poc > w.frames[f].poc)),
                       w.frames, "poc_asc"),
                w.gop.ref_num_list0)

\* The two reference lists _encode_one_frame builds for frame f.
List0(w, f) ==
  IF w.frames[f].type = "I" THEN << >>
  ELSE Truncate(SortBy(SelectSeq(Reverse(w.ref_list),
                         LAMBDA r : ~(w.frames[r].poc > w.frames[f].poc)),
                       w.frames, "poc_des"),
                w.gop.ref_num_list0)

\* A list1 taken from the whole reference list, forward references too.
List1Unfiltered(w, f) ==
  IF w.frames[f].type # "B" THEN << >>
  ELSE Truncate(SortBy(w.ref_list, w.frames, "poc_asc"), w.gop.ref_num_list1)

List1(w, f) ==
  IF w.frames[f].type # "B" THEN << >>
  ELSE Truncate(SortBy(SelectSeq(w.ref_list,
                         LAMBDA r : ~(w.frames[r].poc < w.frames[f].poc)),
                       w.frames, "poc_asc"),
                w.gop.ref_num_list1)

\* _encode_one_vulkan_frame: gst_vulkan_encoder_vk_caps fails on an encoder
\* that is not started; ref_list_info is filled in once the encoder has
\* handed out a slot; only list0 is handed to the encoder.
_encode_one_vulkan_frame(w, f, list0, list1, gpu, ub) ==
  IF ~w.enc.started THEN [w EXCEPT !.ok = FALSE]
  ELSE gst_vulkan_encoder_encode(
         [w EXCEPT !.frames[f].ref_pic_list_modification_flag_l0 =
                      IF w.enc.ref_slots_num # 0 THEN 0 ELSE @,
                   !.frames[f].ref_pic_list_modification_flag_l1 =
                      IF w.enc.ref_slots_num # 0 THEN 0 ELSE @],
         f, list0, gpu, ub)

(* ------------- vkh264enc.c: the packed slice header ------------------- *)
\* _init_packed_headers: the packed headers the element writes itself.
_init_packed_headers == {"SPS", "PPS"}

\* _ref_list_need_reorder (list, list_num, is_asc): <<whether the list is
\* out of frame_num order, whether its assertions held>>.  It looks at the
\* neighbours up to the first pair that is out of order.
_ref_list_need_reorder(frames, list, is_asc) ==
  LET diff(i) == frames[list[i]].frame_num - frames[list[i - 1]].frame_num
      out(i) == (diff(i) > 0 /\ ~is_asc) \/ (diff(i) < 0 /\ is_asc)
  IN  <<Len(list) > 1 /\ \E i \in 2 .. Len(list) : out(i),
        \A i \in 2 .. Len(list) :
          (\A j \in 2 .. i - 1 : ~out(j)) => diff(i) # 0>>

\* _insert_ref_pic_list_modification (slice_hdr, list, list_num, is_asc):
\* <<slice header, whether its assertions held>>.  modification_num is the
\* last place where the list and its copy sorted by frame_num hold
\* different pictures.
_insert_ref_pic_list_modification(slice_hdr, frames, list, is_asc) ==
  LET list_by_pic_num ==
        SortBy(list, frames, IF is_asc THEN "frame_num" ELSE "frame_num_des")
      differ == {i \in 1 .. Len(list) :
                   frames[list_by_pic_num[i]].poc # frames[list[i]].poc}
      modification_num ==
        IF differ = {} THEN 0
        ELSE CHOOSE i \in differ : \A j \in differ : j <= i
      pic_num_diff(i) ==
        frames[list[i]].frame_num -
          (IF i = 1 THEN slice_hdr.frame_num ELSE frames[list[i - 1]].frame_num)
      ops == [i \in 1 .. modification_num |->
                IF pic_num_diff(i) > 0
                THEN [modification_of_pic_nums_idc |-> 1,
                      abs_diff_pic_num_minus1 |-> pic_num_diff(i) - 1]
                ELSE [modification_of_pic_nums_idc |-> 0,
                      abs_diff_pic_num_minus1 |-> (0 - pic_num_diff(i)) - 1]]
             \o <<[modification_of_pic_nums_idc |-> 3,
                   abs_diff_pic_num_minus1 |-> 0]>>
      asserted == /\ modification_num > 0
                  /\ \A i \in 1 .. modification_num : pic_num_diff(i) # 0
  IN  <<IF is_asc
        THEN [slice_hdr EXCEPT !.ref_pic_list_modification_flag_l1 = 1,
                               !.ref_pic_list_modification_l1 = ops]
        ELSE [slice_hdr EXCEPT !.ref_pic_list_modification_flag_l0 = 1,
                               !.ref_pic_list_modification_l0 = ops],
        asserted>>

\* _insert_ref_pic_marking_for_unused_frame
_insert_ref_pic_marking_for_unused_frame(slice_hdr, cur_frame_num, unused_frame_num) ==
  [slice_hdr EXCEPT
     !.adaptive_ref_pic_marking_mode_flag = 1,
     !.ref_pic_marking =
        <<[memory_management_control_operation |-> 1,
           difference_of_pic_nums_minus1 |-> cur_frame_num - unused_frame_num - 1],
          [memory_management_control_operation |-> 0,
           difference_of_pic_nums_minus1 |-> 0]>>]

\* One list of _add_slice_header looked at: pair is <<slice header, whether
\* the assertions held so far>>, and so is the result.
SliceListLookedAt(pair, frames, list, is_asc) ==
  LET need == _ref_list_need_reorder(frames, list, is_asc)
  IN  IF need[1]
      THEN LET m == _insert_ref_pic_list_modification(pair[1], frames, list,
                                                      is_asc)
           IN  <<m[1], pair[2] /\ need[2] /\ m[2]>>
      ELSE <<pair[1], pair[2] /\ need[2]>>

\* The end of _add_slice_header: the marking of the frame to drop, and the
\* header written.
SliceHeaderWritten(w, f, pair) ==
  LET fr == w.frames[f]
      marks == fr.unused_for_reference_pic_num >= 0
      w1 == g_assert(w, pair[2] /\ (marks => fr.is_ref))
  IN  Bind(w1, LAMBDA x :
        gst_vulkan_encoder_add_packed_header(
          [x EXCEPT !.frames[f].slice_hdrs =
             Append(@, IF marks
                       THEN _insert_ref_pic_marking_for_unused_frame(
                              pair[1], fr.frame_num,
                              fr.unused_for_reference_pic_num)
                       ELSE pair[1])],
          f, "SLICE", MaxHeaderBytes))

\* _add_slice_header: the slice header is written for the frame as one
\* more packed header.  Both lists are looked at only when list0 has more
\* than one entry.
_add_slice_header(w, f, list0, list1) ==
  LET h0 == [frame_num |-> w.frames[f].frame_num,
             ref_pic_list_modification_flag_l0 |-> 0,
             ref_pic_list_modification_flag_l1 |-> 0,
             ref_pic_list_modification_l0 |-> << >>,
             ref_pic_list_modification_l1 |-> << >>,
             adaptive_ref_pic_marking_mode_flag |-> 0,
             ref_pic_marking |-> << >>]
  IN  SliceHeaderWritten(
        w, f,
        IF Len(list0) > 1
        THEN SliceListLookedAt(
               SliceListLookedAt(<<h0, TRUE>>, w.frames, list0, FALSE),
               w.frames, list1, TRUE)
        ELSE <<h0, TRUE>>)

\* _add_vulkan_params_header: the VPS, SPS and PPS of the session as one
\* packed header.
_add_vulkan_params_header(w, f) ==
  gst_vulkan_encoder_add_packed_header(w, f, "PARAMS", MaxHeaderBytes)

\* _encode_one_frame; the lists and the reference list they were taken
\* from are kept with the frame.  The aud and cc-insert properties are at
\* their default, FALSE, and num-slices at 1: the one slice header is
\* written when the element packs slice headers.
EncodeWithLists(w, f, list0, list1, gpu, ub) ==
  LET w0 == IF w.frames[f].poc = 0 THEN _add_vulkan_params_header(w, f) ELSE w
      w1 == [w0 EXCEPT !.frames[f].list0 = list0, !.frames[f].list1 = list1,
                       !.frames[f].refs_at_encode = w.ref_list]
      w2 == g_assert(w1, Len(list0) + Len(list1) <= w.gop.num_ref_frames)
  IN  Bind(Bind(w2, LAMBDA x :
                  IF "SLICE" \in _init_packed_headers
                  THEN _add_slice_header(x, f, list0, list1) ELSE x),
           LAMBDA x :
             IF "SLICE" \in _init_packed_headers /\ ~x.ok THEN x
             ELSE _encode_one_vulkan_frame(x, f, list0, list1, gpu, ub))

_encode_one_frame(w, f, gpu, ub) ==
  EncodeWithLists(w, f, List0(w, f), List1(w, f), gpu, ub)

\* gst_vulkan_encode_picture_new (encoder, buffer, w, h, is_ref, nb_refs)
gst_vulkan_encode_picture_new(w, f) ==
  [w EXCEPT !.frames[f].picture = TRUE,
            !.frames[f].slotIndex = -1,
            !.frames[f].packed_headers = << >>,
            !.frames[f].nb_refs = IF w.frames[f].type # "I" THEN 1 ELSE 0]

\* gst_vulkan_encode_picture_free: the picture goes, with its buffers, its
\* packed headers and what was read back for it.
gst_vulkan_encode_picture_free(w, p) ==
  [w EXCEPT !.frames[p].picture = FALSE,
            !.frames[p].packed_headers = << >>,
            !.frames[p].out_buffer = NoBuffer,
            !.frames[p].encode_res = NoQueryResult]

\* The end of gst_vulkan_h265enc_encode_frame, after _encode_one_frame
\* succeeded.
StoreEncoded(w, f, unused_ref) ==
  LET w1 == [w EXCEPT !.output_list = Append(@, f)]
      dropped == IF unused_ref # NULL THEN QueueRemove(w.ref_list, unused_ref)
                 ELSE w.ref_list
      pushed == Append(dropped, f)
      w2 == [w1 EXCEPT !.ref_list = SortBy(pushed, w.frames, "frame_num")]
      w3 == g_assert(w2, \A i, j \in 1 .. Len(pushed) :
                i # j => w.frames[pushed[i]].frame_num # w.frames[pushed[j]].frame_num)
      w4 == Bind(w3, LAMBDA x :
                g_assert(x, Len(x.ref_list) <= x.gop.num_ref_frames))
  IN  IF w.frames[f].is_ref THEN Bind(w4, LAMBDA x : [x EXCEPT !.ok = TRUE])
      ELSE [w1 EXCEPT !.ok = TRUE]

\* gst_vulkan_h265enc_encode_frame (base, gst_frame, is_last); w.ok is
\* whether it returned GST_FLOW_OK.
gst_vulkan_h265enc_encode_frame(w, f, gpu, ub) ==
  LET w1 == g_assert(w, ~w.frames[f].picture)
      body(x) ==
        LET x1 == gst_vulkan_encode_picture_new(x, f)
            fu == IF x1.frames[f].is_ref
                  THEN _find_unused_reference_frame(x1, f)
                  ELSE <<x1, NULL>>
            x2 == Bind(fu[1], LAMBDA y : _encode_one_frame(y, f, gpu, ub))
        IN  Bind(x2, LAMBDA y : IF y.ok THEN StoreEncoded(y, f, fu[2]) ELSE y)
  IN  Bind(w1, body)

(* ---------------------- gsth265encoder.c: handlers --------------------- *)
\* _push_out_one_buffer with the element's prepare_output: the head of
\* output_list goes downstream through gst_video_encoder_finish_frame.
_push_out_one_buffer(w) ==
  [w EXCEPT !.output_list = Tail(@),
            !.output_frame_count = @ + 1,
            !.emitted = Append(@, Head(w.output_list))]

RECURSIVE PushOutAll(_)
PushOutAll(w) ==
  IF w.output_list = << >> THEN w ELSE PushOutAll(_push_out_one_buffer(w))

\* The while (frame_encode) loop of gst_h265_encoder_handle_frame.  The
\* frame handed to encode_frame is h265_frame->frame, the frame this call
\* of handle_frame was given, on every turn of the loop.  HandleEncoded is
\* the turn after encode_frame returned e, HandleReordered after
\* reorder_frame returned r.
RECURSIVE HandleLoop(_, _, _, _)
RECURSIVE HandleEncoded(_, _, _, _)
RECURSIVE HandleReordered(_, _, _, _)
HandleReordered(r, frame, gpu, ub) ==
  IF r.aborted THEN r
  ELSE IF ~r.ok THEN [r EXCEPT !.flow_error = TRUE]
  ELSE HandleLoop(PushOutAll(r), frame, gpu, ub)

HandleEncoded(e, frame, gpu, ub) ==
  IF e.aborted THEN e
  ELSE IF ~e.ok THEN [e EXCEPT !.flow_error = TRUE]
  ELSE HandleReordered(
         gst_vulkan_h265enc_reorder_frame(
           [e EXCEPT !.out_frame = NULL, !.nb_frames = @ + 1], NULL, FALSE),
         frame, gpu, ub)

HandleLoop(w, frame, gpu, ub) ==
  IF w.aborted \/ w.out_frame = NULL THEN w
  ELSE HandleEncoded(gst_vulkan_h265enc_encode_frame(w, frame, gpu, ub),
                     frame, gpu, ub)

\* gst_h265_encoder_set_quality as handle_frame uses it: the value it
\* returns is compared with GST_FLOW_OK (0).  Before the first encoded frame
\* it returns priv->current_quality.
gst_h265_encoder_set_quality(w) ==
  IF w.nb_frames = 0 THEN w.current_quality ELSE 0

\* gst_h265_encoder_handle_frame (encoder, frame)
HandleFirstReorder(w2, f, gpu, ub) ==
  IF w2.aborted THEN w2
  ELSE IF ~w2.ok THEN [w2 EXCEPT !.flow_error = TRUE]
  ELSE HandleLoop(w2, f, gpu, ub)

gst_h265_encoder_handle_frame(w, force, gpu, ub) ==
  IF gst_h265_encoder_set_quality(w) # 0 THEN [w EXCEPT !.ok = FALSE]
  ELSE HandleFirstReorder(
         gst_vulkan_h265enc_reorder_frame(
           gst_vulkan_h265enc_new_frame(w, force), Len(w.frames) + 1, FALSE),
         Len(w.frames) + 1, gpu, ub)

(* ------------------------------ the state ------------------------------ *)
VARIABLES
  gop,                \* GstH265Encoder.gop
  frames,             \* the frames created so far, by id
  reorder_list,       \* GstH265Encoder.reorder_list
  ref_list,           \* GstH265Encoder.ref_list
  output_list,        \* GstH265Encoder.output_list
  input_frame_count,  \* GstH265Encoder.input_frame_count
  output_frame_count, \* GstH265Encoder.output_frame_count
  nb_frames,          \* GstH265EncoderPrivate.nb_frames
  current_quality,    \* GstH265EncoderPrivate.current_quality
  enc,                \* GstVulkanEncoderPrivate
  emitted,            \* frames handed to gst_video_encoder_finish_frame
  frame_encode,       \* the frame the last reorder_frame call gave out
  ret,                \* whether the last call succeeded
  aborted,            \* the process died (g_assert, SIGSEGV)
  flow_error,         \* a handler returned GST_FLOW_ERROR
  glib_asserts,       \* whether the build keeps g_assert: "unknown" until it shows
  draining,           \* the caller has begun to drain the element
  op,                 \* the GstVulkanOperation (the encoder's exec)
  device,             \* jobs submitted to the queue and not finished
  semaphore_value,    \* timeline semaphore value of each image memory
  pc                  \* where the caller of the element stands

vars == <<gop, frames, reorder_list, ref_list, output_list, input_frame_count,
          output_frame_count, nb_frames, current_quality, enc, emitted,
          frame_encode, ret, aborted, flow_error, glib_asserts, draining,
          op, device, semaphore_value, pc>>

\* The state as the operations see it, in a build that keeps g_assert
\* (build = TRUE) or drops it.
World(build) ==
  [gop |-> gop, frames |-> frames, reorder_list |-> reorder_list,
   ref_list |-> ref_list, output_list |-> output_list,
   input_frame_count |-> input_frame_count,
   output_frame_count |-> output_frame_count, nb_frames |-> nb_frames,
   current_quality |-> current_quality, enc |-> enc, emitted |-> emitted,
   out_frame |-> frame_encode, ok |-> ret, aborted |-> aborted,
   flow_error |-> flow_error, glib_asserts |-> build, assert_failed |-> FALSE,
   op |-> op, device |-> device, semaphore_value |-> semaphore_value]

\* Which build this is is fixed, and shows at the first failing assertion.
Builds == IF glib_asserts = "unknown" THEN BOOLEAN ELSE {glib_asserts = "kept"}

\* The next state is w, with the caller at p.
Commit(w, p) ==
  /\ gop' = w.gop
  /\ frames' = w.frames
  /\ reorder_list' = w.reorder_list
  /\ ref_list' = w.ref_list
  /\ output_list' = w.output_list
  /\ input_frame_count' = w.input_frame_count
  /\ output_frame_count' = w.output_frame_count
  /\ nb_frames' = w.nb_frames
  /\ current_quality' = w.current_quality
  /\ enc' = w.enc
  /\ emitted' = w.emitted
  /\ frame_encode' = w.out_frame
  /\ ret' = w.ok
  /\ aborted' = w.aborted
  /\ flow_error' = w.flow_error
  /\ op' = w.op
  /\ device' = w.device
  /\ semaphore_value' = w.semaphore_value
  /\ glib_asserts' = IF ~w.assert_failed THEN glib_asserts
                     ELSE IF w.glib_asserts THEN "kept" ELSE "dropped"
  /\ pc' = p

\* The objects after construction and gst_h265_encoder_start.
Init ==
  /\ gop = GopZero
  /\ frames = << >>
  /\ reorder_list = << >>
  /\ ref_list = << >>
  /\ output_list = << >>
  /\ input_frame_count = 0
  /\ output_frame_count = 0
  /\ nb_frames = 0
  /\ current_quality = 0
  /\ enc = EncoderZero
  /\ emitted = << >>
  /\ frame_encode = NULL
  /\ ret = TRUE
  /\ aborted = FALSE
  /\ flow_error = FALSE
  /\ glib_asserts = "unknown"
  /\ draining = FALSE
  /\ op = OperationZero
  /\ device = << >>
  /\ semaphore_value = [m \in Images |-> 0]
  /\ pc = "init"

Running == ~aborted /\ ~flow_error

\* What the device does with an encode call.
GpuOutcomes == {"ok", "begin_fail", "end_fail", "query_fail"}

\* Frame rates of the input caps: 0/1 (variable rate) and 5/2.
FpsSet == {[n |-> 0, d |-> 1], [n |-> 5, d |-> 2]}

\* gst_h265_encoder_set_format: the element's set_format (reset, session
\* start; its result is not looked at), then the level, which the picture
\* size allows, and the GOP structure: it returns TRUE.  The fields of gop
\* that no property sets are the caller's.
SetFormatOf(idrs, nbs, pyrs, nrefs) ==
  /\ pc = "init"
  /\ \E idr \in idrs, nb \in nbs, pyr \in pyrs,
        nif \in 0 .. 1, nref \in nrefs, fps \in FpsSet,
        started \in BOOLEAN, l0 \in {0, 1, MaxRefFrames}, l1 \in 0 .. 2 :
       LET g == [gop EXCEPT !.idr_period = idr, !.num_bframes = nb,
                            !.b_pyramid = pyr, !.num_iframes = nif,
                            !.num_ref_frames = nref]
           w1 == gst_vulkan_encoder_start(
                   World(TRUE), IF started THEN "none" ELSE "session",
                   REF_SLOTS_LEN, TRUE, TRUE)
           caps == [ok |-> w1.enc.started, list0 |-> l0, list1 |-> l1]
       IN  /\ Commit([w1 EXCEPT
                        !.gop = _generate_gop_structure(g, fps, caps),
                        !.ok = TRUE],
                     "idle")
           /\ UNCHANGED draining

SetFormat ==
  SetFormatOf(0 .. MaxIdrPeriod, 0 .. MaxBFrames, BOOLEAN, 0 .. MaxRefFrames)

ForcedSoFar == Cardinality({i \in 1 .. Len(frames) : frames[i].force_keyframe})

\* After a reorder_frame call: an abort, a failure, a frame to encode, or
\* nothing to do.
AfterReorder(w, p) ==
  IF w.aborted THEN Commit(w, p)
  ELSE IF ~w.ok THEN Commit([w EXCEPT !.flow_error = TRUE], p)
  ELSE LET w2 == PushOutAll(w)
       IN  Commit(w2, IF w2.out_frame # NULL THEN "encode" ELSE "idle")

\* new_frame and reorder_frame (frame, FALSE) for the next input frame, with
\* the caller at p; at most max frames, flagged as forces allows.
PushFrames(p, max, forces) ==
  /\ pc = p /\ Running /\ ~draining
  /\ Len(frames) < max
  /\ \E force \in forces, build \in Builds :
       /\ force => ForcedSoFar < MaxForceKeyframes
       /\ LET w1 == gst_vulkan_h265enc_new_frame(World(build), force)
          IN  AfterReorder(gst_vulkan_h265enc_reorder_frame(
                             w1, Len(w1.frames), FALSE), "idle")
  /\ UNCHANGED draining

PushInput(p) == PushFrames(p, MaxFrames, BOOLEAN)

ReorderFrame == PushInput("idle")

\* encode_frame on the frame reorder_frame gave out.
EncodeFrame ==
  /\ pc = "encode" /\ Running
  /\ \E gpu \in GpuOutcomes, ub \in {"benign", "crash"}, build \in Builds :
       LET w1 == gst_vulkan_h265enc_encode_frame(World(build), frame_encode,
                                                 gpu, ub)
       IN  IF w1.aborted THEN Commit(w1, "encode")
           ELSE IF ~w1.ok THEN Commit([w1 EXCEPT !.flow_error = TRUE], "encode")
           ELSE Commit(w1, "reorder")
  /\ UNCHANGED draining

\* reorder_frame (NULL, bump_all) after an encode, then the output list is
\* pushed out; bump_all is set while the caller drains.
ReorderNull ==
  /\ pc = "reorder" /\ Running
  /\ \E build \in Builds :
       AfterReorder(gst_vulkan_h265enc_reorder_frame(
                      [World(build) EXCEPT !.out_frame = NULL], NULL, draining),
                    "reorder")
  /\ UNCHANGED draining

\* The caller has no more input: reorder_frame (NULL, TRUE) from now on.
Drain ==
  /\ pc = "idle" /\ Running /\ ~draining
  /\ draining' = TRUE
  /\ \E build \in Builds :
       AfterReorder(gst_vulkan_h265enc_reorder_frame(
                      [World(build) EXCEPT !.out_frame = NULL], NULL, TRUE),
                    "idle")

Next == SetFormat \/ ReorderFrame \/ EncodeFrame \/ ReorderNull \/ Drain

Spec == Init /\ [][Next]_vars

\* The element driven by gst_h265_encoder_handle_frame.
HandleFrame ==
  /\ pc = "idle" /\ Running
  /\ Len(frames) < MaxFrames
  /\ \E force \in BOOLEAN, gpu \in GpuOutcomes, ub \in {"benign", "crash"},
        build \in Builds :
       /\ force => ForcedSoFar < MaxForceKeyframes
       /\ Commit(gst_h265_encoder_handle_frame(World(build), force, gpu, ub),
                 "idle")
  /\ UNCHANGED draining

NextBase == SetFormat \/ HandleFrame

SpecBase == Init /\ [][NextBase]_vars

(* ------------------------- the element flushed ------------------------- *)
\* gst_vulkan_h265enc_flush: the two counters, then the parent class's
\* flush.  gst_h265_encoder_class_init sets no flush, so the call goes to
\* whatever GstVideoEncoderClass.flush holds, which is not among the
\* sources: a function that returns TRUE or FALSE, or no function at all.
\* Whichever it is, it knows nothing of reorder_list.
ParentFlush == {"true", "false", "null"}

gst_vulkan_h265enc_flush(w, parent) ==
  LET w1 == [w EXCEPT !.gop.cur_frame_index = 0, !.gop.cur_frame_num = 0]
  IN  IF parent = "null" THEN [w1 EXCEPT !.aborted = TRUE]
      ELSE [w1 EXCEPT !.ok = (parent = "true")]

\* The caller flushes between two input frames, with frames still buffered.
Flush ==
  /\ pc = "idle" /\ Running /\ ~draining
  /\ reorder_list # << >>
  /\ \E parent \in ParentFlush :
       Commit(gst_vulkan_h265enc_flush(World(TRUE), parent), "flushed")
  /\ UNCHANGED draining

\* The next input frame after a flush.
PushAfterFlush == PushInput("flushed")

NextFlush ==
  SetFormat \/ ReorderFrame \/ EncodeFrame \/ ReorderNull \/ Flush
    \/ PushAfterFlush

SpecFlush == Init /\ [][NextFlush]_vars

(* ------------------------- one GOP with a pyramid ---------------------- *)
\* The properties of one run: "idr-period" 8, "b-frames" 3, "b-pyramid"
\* on, "ref-frames" 3, and the eight frames of one GOP, none of them
\* flagged; the frame rate and what the device answers are any.
PyramidGop == [idr_period |-> 8, num_bframes |-> 3, num_ref_frames |-> 3]

SetFormatPyramid ==
  SetFormatOf({PyramidGop.idr_period}, {PyramidGop.num_bframes}, {TRUE},
              {PyramidGop.num_ref_frames})

PushPyramid == PushFrames("idle", PyramidGop.idr_period, {FALSE})

NextPyramid == SetFormatPyramid \/ PushPyramid \/ EncodeFrame \/ ReorderNull

SpecPyramid == Init /\ [][NextPyramid]_vars

\* A GOP whose run of four B-frames has three pyramid levels: num_ref_frames
\* 4 leaves two levels of B references.
DeepPyramidGop == [idr_period |-> 6, num_bframes |-> 4, num_ref_frames |-> 4]

NextDeepPyramid ==
  \/ SetFormatOf({DeepPyramidGop.idr_period}, {DeepPyramidGop.num_bframes},
                 {TRUE}, {DeepPyramidGop.num_ref_frames})
  \/ PushFrames("idle", DeepPyramidGop.idr_period, {FALSE})
  \/ EncodeFrame
  \/ ReorderNull

SpecDeepPyramid == Init /\ [][NextDeepPyramid]_vars

(* ------------------- the encoder driven by its caller ------------------ *)
\* As the tests of the encoder use it: start, pictures made, encoded and
\* freed, stop.  pc is where the caller stands: "new" with a picture made
\* and not yet encoded, "waiting" inside gst_vulkan_encoder_encode at
\* gst_vulkan_operation_wait, "stop" and "stop_again" right after one stop
\* and after a further one, "ready" otherwise.

\* The maxDpbSlots a device may report.
DpbSlotsSet == {SmallDpbSlots, REF_SLOTS_LEN}

LivePictures == {p \in 1 .. Len(frames) : frames[p].picture}

\* The pictures the caller still holds that were encoded as references.
LiveRefs == {p \in LivePictures : frames[p].is_ref /\ frames[p].encoded}

Callable == ~aborted /\ pc # "waiting"

\* gst_vulkan_encoder_start; on a started encoder the device is not asked
\* again.
EncStart ==
  /\ Callable
  /\ enc.started \/ LivePictures = {}
  /\ \E fail \in IF enc.started THEN {"none"} ELSE StartSteps \cup {"none"},
        slots \in IF enc.started THEN {enc.maxDpbSlots} ELSE DpbSlotsSet :
       Commit(gst_vulkan_encoder_start(World(TRUE), fail, slots, TRUE, TRUE),
              "ready")
  /\ UNCHANGED draining

EncStop ==
  /\ Callable
  /\ Commit(gst_vulkan_encoder_stop(World(TRUE)),
            IF pc \in {"stop", "stop_again"} THEN "stop_again" ELSE "stop")
  /\ UNCHANGED draining

\* allocate_picture: gst_vulkan_encode_picture_new with the flags of the
\* picture, once start has succeeded.  The caller keeps no more references
\* than the DPB has slots.
EncNewPicture ==
  /\ Callable /\ pc # "new"
  /\ enc.started
  /\ Len(frames) < MaxPictures
  /\ \E is_ref \in BOOLEAN, nb_refs \in 0 .. 1 :
       /\ nb_refs > 0 => LiveRefs # {}
       /\ is_ref => Cardinality(LiveRefs) < enc.maxDpbSlots
       /\ LET fr == [gst_vulkan_h265_encode_frame_new(FALSE) EXCEPT
                       !.type = IF nb_refs > 0 THEN "P" ELSE "I",
                       !.is_ref = is_ref]
              w1 == [World(TRUE) EXCEPT !.frames = Append(@, fr)]
          IN  Commit(gst_vulkan_encode_picture_new(w1, Len(w1.frames)), "new")
  /\ UNCHANGED draining

\* gst_vulkan_encoder_encode on the new picture, until it waits.
EncEncode ==
  /\ Callable /\ pc = "new"
  /\ \E gpu \in {"ok", "begin_fail", "end_fail"}, ub \in {"benign", "crash"},
        ref_pics \in {<<r>> : r \in LiveRefs} \cup {<< >>} :
       /\ Len(ref_pics) = frames[Len(frames)].nb_refs
       /\ LET w1 == EncodeSubmit(World(TRUE), Len(frames), ref_pics, gpu, ub)
          IN  Commit(w1, IF w1.aborted \/ ~w1.ok THEN "ready" ELSE "waiting")
  /\ UNCHANGED draining

\* The device finishes its oldest job and signals the fence.
GpuFinish ==
  /\ device # << >>
  /\ device' = Tail(device)
  /\ UNCHANGED <<gop, frames, reorder_list, ref_list, output_list,
                 input_frame_count, output_frame_count, nb_frames,
                 current_quality, enc, emitted, frame_encode, ret, aborted,
                 flow_error, glib_asserts, draining, op, semaphore_value, pc>>

\* gst_vulkan_encoder_encode returns: the wait is over, the query is read.
EncReturn ==
  /\ ~aborted /\ pc = "waiting"
  /\ FencesSignalled(World(TRUE))
  /\ \E gpu \in {"ok", "query_fail"} :
       Commit(EncodeFinish(World(TRUE), gpu), "ready")
  /\ UNCHANGED draining

\* gst_vulkan_encode_picture_free
EncFreePicture ==
  /\ Callable
  /\ \E p \in LivePictures :
       /\ pc = "new" => p # Len(frames)
       /\ Commit(gst_vulkan_encode_picture_free(World(TRUE), p),
                 IF pc = "new" THEN "new" ELSE "ready")
  /\ UNCHANGED draining

NextEnc ==
  \/ EncStart \/ EncStop \/ EncNewPicture \/ EncEncode \/ GpuFinish
  \/ EncReturn \/ EncFreePicture

SpecEnc == Init /\ [][NextEnc]_vars

(* ------------- the encoder driven picture by picture ------------------- *)
\* As test_encoder_h265_i and test_encoder_h265_i_p drive the encoder, with
\* the packed headers an element adds: start, then for each picture
\* allocate_picture, packed headers, encode, and the picture before it (or
\* the picture itself) freed; stop at the end.  Every picture is a
\* reference.  A failed fail_unless ends the run (pc = "done").
\* ref_pics[0] is the live picture that was encoded last.

\* Packed headers added to one picture.
MaxPackedHeaders == 1

HeldPicture ==
  IF LiveRefs = {} THEN NULL ELSE CHOOSE p \in LiveRefs : \A q \in LiveRefs : q <= p

StreamStart ==
  /\ pc = "init"
  /\ \E fail \in StartSteps \cup {"none"}, slots \in DpbSlotsSet :
       LET w1 == gst_vulkan_encoder_start(World(TRUE), fail, slots, TRUE, TRUE)
       IN  Commit(w1, IF w1.ok THEN "ready" ELSE "done")
  /\ UNCHANGED draining

\* allocate_picture (enc, pool, width, height, TRUE, nb_refs)
StreamAllocatePicture ==
  /\ pc = "ready"
  /\ Len(frames) < MaxPictures
  /\ Cardinality(LivePictures) <= 1
  /\ \E nb_refs \in 0 .. 1 :
       /\ nb_refs > 0 => HeldPicture # NULL
       /\ LET fr == [gst_vulkan_h265_encode_frame_new(FALSE) EXCEPT
                       !.type = IF nb_refs > 0 THEN "P" ELSE "I",
                       !.is_ref = TRUE]
              w1 == [World(TRUE) EXCEPT !.frames = Append(@, fr)]
              w2 == gst_vulkan_encode_picture_new(w1, Len(w1.frames))
          IN  Commit([w2 EXCEPT !.frames[Len(w1.frames)].nb_refs = nb_refs],
                     "new")
  /\ UNCHANGED draining

StreamAddPackedHeader ==
  /\ pc = "new"
  /\ Len(frames[Len(frames)].packed_headers) < MaxPackedHeaders
  /\ \E size \in 1 .. MaxHeaderBytes :
       Commit(gst_vulkan_encoder_add_packed_header(World(TRUE), Len(frames),
                                                   "PARAMS", size), "new")
  /\ UNCHANGED draining

\* encode_h265_picture up to the wait inside gst_vulkan_encoder_encode.
StreamEncode ==
  /\ pc = "new"
  /\ \E gpu \in {"ok", "begin_fail", "alloc_fail", "end_fail"},
        ub \in {"benign", "crash"} :
       LET pic == Len(frames)
           ref_pics == IF frames[pic].nb_refs > 0 THEN <<HeldPicture>>
                       ELSE << >>
           w0 == World(TRUE)
           w1 == EncodeSubmit(w0, pic, ref_pics, gpu, ub)
       IN  Commit(w1, IF w1.aborted \/ ~w1.ok \/ ~Submitted(w0, w1)
                      THEN "done" ELSE "waiting")
  /\ UNCHANGED draining

\* gst_vulkan_encoder_encode returns with what the query reports.
StreamReturn ==
  /\ pc = "waiting"
  /\ FencesSignalled(World(TRUE))
  /\ \E complete \in BOOLEAN, offset \in 0 .. MaxQueryOffset,
        data_size \in 0 .. MaxSliceBytes :
       /\ complete => data_size > 0
       /\ ~complete => offset = 0 /\ data_size = 0
       /\ LET w1 == EncodeQueried(World(TRUE),
                                  [complete |-> complete, offset |-> offset,
                                   data_size |-> data_size])
          IN  Commit(w1, IF w1.ok THEN "ready" ELSE "done")
  /\ UNCHANGED draining

StreamFreePicture ==
  /\ pc = "ready"
  /\ \E p \in LivePictures :
       Commit(gst_vulkan_encode_picture_free(World(TRUE), p), "ready")
  /\ UNCHANGED draining

StreamStop ==
  /\ pc = "ready"
  /\ LivePictures = {}
  /\ Commit(gst_vulkan_encoder_stop(World(TRUE)), "stopped")
  /\ UNCHANGED draining

NextStream ==
  \/ StreamStart \/ StreamAllocatePicture \/ StreamAddPackedHeader
  \/ StreamEncode \/ GpuFinish \/ StreamReturn \/ StreamFreePicture
  \/ StreamStop

SpecStream == Init /\ [][NextStream]_vars

(* ------------- gstvkencoder.c: sessions, one call at a time ------------ *)
\* A caller that sets the rate control properties once, then starts, stops
\* and encodes in any order, each picture an intra reference picture and
\* each encode one call during which the device finishes the job.  pc is
\* "started" after a start that succeeded, "encoding" once that session has
\* recorded a picture.  A start fails at its first step or at its last.
SessionSetProperty ==
  /\ pc = "init"
  /\ \E rate_control \in {"default", "disabled", "cbr", "vbr"},
        average_bitrate \in {1, DeviceMaxBitrate + 1},
        quality_level \in 0 .. DeviceMaxQualityLevels :
       Commit(gst_vulkan_encoder_set_property(
                World(TRUE), rate_control, average_bitrate, quality_level),
              "configured")
  /\ UNCHANGED draining

SessionStart ==
  /\ ~aborted /\ pc \in {"configured", "failed", "stopped"}
  /\ \E fail \in {"none", "profile", "flush"} :
       LET w1 == gst_vulkan_encoder_start(World(TRUE), fail, SmallDpbSlots,
                                          TRUE, TRUE)
       IN  Commit(w1, IF w1.ok THEN "started" ELSE "failed")
  /\ UNCHANGED draining

SessionStop ==
  /\ ~aborted /\ pc \in {"started", "encoding", "failed"}
  /\ Commit(gst_vulkan_encoder_stop(World(TRUE)), "stopped")
  /\ UNCHANGED draining

\* gst_vulkan_encode_picture_new and gst_vulkan_encoder_encode on the new
\* picture.
SessionEncode ==
  /\ ~aborted /\ pc # "init"
  /\ Len(frames) < MaxPictures
  /\ \E gpu \in {"ok", "begin_fail", "end_fail", "query_fail"} :
       LET fr == gst_vulkan_h265_encode_frame_new(FALSE)
           w1 == [World(TRUE) EXCEPT !.frames = Append(@, fr)]
           pic == Len(w1.frames)
           w2 == [gst_vulkan_encode_picture_new(w1, pic) EXCEPT
                    !.frames[pic].nb_refs = 0]
           w3 == gst_vulkan_encoder_encode(w2, pic, << >>, gpu, "benign")
       IN  Commit(w3, IF pc = "started" /\ w3.frames[pic].out_buffer.set
                      THEN "encoding" ELSE pc)
  /\ UNCHANGED draining

NextSession ==
  SessionSetProperty \/ SessionStart \/ SessionStop \/ SessionEncode

SpecSession == Init /\ [][NextSession]_vars

(* ------------------- the recorder driven by its caller ----------------- *)
OpCallable == pc = "op"

OpNew ==
  /\ pc = "init"
  /\ \E sync2 \in BOOLEAN, timeline \in BOOLEAN :
       Commit([World(TRUE) EXCEPT
                 !.op = gst_vulkan_operation_new(sync2, timeline)], "op")
  /\ UNCHANGED draining

\* gst_vulkan_operation_begin waits for the job of an earlier begin.
OpBegin ==
  /\ OpCallable
  /\ op.cmd_buf => (FencesSignalled(World(TRUE)) /\ ~op.object_locked)
  /\ \E fail \in {"none", "pool", "begin"} :
       Commit(gst_vulkan_operation_begin(World(TRUE), fail), "op")
  /\ UNCHANGED draining

OpEnd ==
  /\ OpCallable
  /\ Len(device) < MaxJobs
  /\ \E fail \in {"none", "fence", "end", "submit"} :
       LET w1 == gst_vulkan_operation_end(World(TRUE), fail)
       IN  /\ (op.cmd_buf /\ fail \in {"none", "submit"}) => ~op.object_locked
           /\ \A m \in Images : w1.semaphore_value[m] <= MaxSemaphoreValue
           /\ Commit(w1, "op")
  /\ UNCHANGED draining

OpWait ==
  /\ OpCallable /\ ~op.object_locked
  /\ FencesSignalled(World(TRUE))
  /\ Commit(gst_vulkan_operation_wait(World(TRUE)), "op")
  /\ UNCHANGED draining

OpAddDependencyFrame ==
  /\ OpCallable /\ ~op.object_locked
  /\ \E buffer \in Buffers :
       LET w1 == gst_vulkan_operation_add_dependecy_frame(World(TRUE), buffer)
       IN  Len(w1.op.frames) <= MaxDeps /\ Commit(w1, "op")
  /\ UNCHANGED draining

\* garbage is what the stack holds where a new entry's flag is read; it is
\* FALSE when no entry is made.
OpUpdateFrame ==
  /\ OpCallable /\ ~op.object_locked
  /\ \E buffer \in Buffers, garbage \in BOOLEAN :
       /\ FindDep(op.frames, buffer) # 0 => ~garbage
       /\ LET w1 == gst_vulkan_operation_update_frame(World(TRUE), buffer,
                                                      garbage)
          IN  Len(w1.op.frames) <= MaxDeps /\ Commit(w1, "op")
  /\ UNCHANGED draining

OpAddFrameBarrier ==
  /\ OpCallable /\ ~op.object_locked
  /\ \E buffer \in Buffers, image \in BOOLEAN, wide_access \in BOOLEAN,
        garbage \in BOOLEAN :
       /\ FindDep(op.frames, buffer) # 0 => ~garbage
       /\ ~image => (~wide_access /\ ~garbage)
       /\ LET w1 == gst_vulkan_operation_add_frame_barrier(
                      World(TRUE), buffer, image, wide_access, garbage)
          IN  /\ Len(w1.op.frames) <= MaxDeps
              /\ Len(w1.op.barriers) <= MaxBarriers
              /\ Commit(w1, "op")
  /\ UNCHANGED draining

OpDiscardDependencies ==
  /\ OpCallable /\ ~op.object_locked
  /\ Commit(gst_vulkan_operation_discard_dependencies(World(TRUE)), "op")
  /\ UNCHANGED draining

OpReset ==
  /\ OpCallable /\ ~op.object_locked
  /\ Commit(gst_vulkan_operation_reset(World(TRUE)), "op")
  /\ UNCHANGED draining

\* A call that takes the object lock of a recorder whose lock an earlier
\* call has kept: the mutex is not recursive and the caller never returns.
OpHang ==
  /\ OpCallable /\ op.object_locked
  /\ Commit(World(TRUE), "hung")
  /\ UNCHANGED draining

NextOp ==
  \/ OpNew \/ OpBegin \/ OpEnd \/ OpWait \/ OpAddDependencyFrame
  \/ OpUpdateFrame \/ OpAddFrameBarrier \/ OpDiscardDependencies \/ OpReset
  \/ OpHang \/ GpuFinish

SpecOp == Init /\ [][NextOp]_vars

(* ============================== properties ============================= *)
Count(q, x) == Cardinality({i \in 1 .. Len(q) : q[i] = x})
PosIn(q, x) == CHOOSE i \in 1 .. Len(q) : q[i] = x
Pocs(q) == {frames[q[i]].poc : i \in 1 .. Len(q)}

\* The frame that opened the GOP frame id belongs to.
GopStart(id) ==
  CHOOSE j \in 1 .. id : /\ frames[j].gop_index = 0
                         /\ \A k \in (j + 1) .. id : frames[k].gop_index # 0
SameGop(a, b) == GopStart(a) = GopStart(b)
FrameAtPoc(id, poc) ==
  LET S == {j \in 1 .. Len(frames) : SameGop(j, id) /\ frames[j].poc = poc}
  IN  IF S = {} THEN NULL ELSE CHOOSE j \in S : TRUE
\* The nearest non-B frames of the GOP before and after frame id.
PrevAnchor(id) ==
  LET S == {j \in 1 .. (id - 1) : SameGop(j, id) /\ frames[j].type # "B"}
  IN  IF S = {} THEN NULL ELSE CHOOSE j \in S : \A k \in S : k <= j
NextNonB(id) ==
  LET S == {j \in (id + 1) .. Len(frames) :
              SameGop(j, id) /\ frames[j].type # "B"}
  IN  IF S = {} THEN NULL ELSE CHOOSE j \in S : \A k \in S : j <= k
IsPyramidB(id) ==
  frames[id].left_ref_poc_diff # 0 \/ frames[id].right_ref_poc_diff # 0
\* Frame a lies in the run of B-frames of frame id, its two ends included.
InRun(id, a) ==
  /\ a # NULL /\ PrevAnchor(id) # NULL /\ NextNonB(id) # NULL
  /\ frames[PrevAnchor(id)].poc <= frames[a].poc
  /\ frames[a].poc <= frames[NextNonB(id)].poc
EmittedBefore(a, id) ==
  Count(emitted, a) > 0 /\ PosIn(emitted, a) < PosIn(emitted, id)
EmittedB ==
  {id \in 1 .. Len(frames) : Count(emitted, id) > 0 /\ frames[id].type = "B"}

\* C1: at every point, for every configuration GOP planning accepts, the
\* reference list holds at most num_ref_frames frames.
C1_RefListBound == Len(ref_list) <= gop.num_ref_frames

\* C2: with idr_period > 0, once the frames admitted have all been handled
\* and nothing is left to reorder or push out, every admitted frame has been
\* emitted exactly once.
C2_EmittedEqualsAdmitted ==
  (/\ pc = "idle" /\ Running /\ gop.idr_period > 0
   /\ reorder_list = << >> /\ output_list = << >>)
    => \A id \in 1 .. Len(frames) : Count(emitted, id) = 1

\* C3: every emitted B-frame comes after the non-B frames that close its run
\* on both sides and, for a pyramid B-frame, after the frames of its run at
\* poc + left_ref_poc_diff and poc + right_ref_poc_diff.
C3_AnchorsBeforeB ==
  \A id \in EmittedB :
    /\ PrevAnchor(id) # NULL /\ EmittedBefore(PrevAnchor(id), id)
    /\ NextNonB(id) # NULL /\ EmittedBefore(NextNonB(id), id)
    /\ IsPyramidB(id) =>
         \A a \in {FrameAtPoc(id, frames[id].poc + frames[id].left_ref_poc_diff),
                   FrameAtPoc(id, frames[id].poc + frames[id].right_ref_poc_diff)} :
           InRun(id, a) => EmittedBefore(a, id)

\* A pyramid B-frame has been emitted whose backward anchor is itself a
\* B-frame of the run.
C3_Witness ==
  \E id \in EmittedB :
    /\ IsPyramidB(id)
    /\ LET a == FrameAtPoc(id, frames[id].poc + frames[id].right_ref_poc_diff)
       IN  a # NULL /\ frames[a].type = "B" /\ EmittedBefore(a, id)

\* C4: when an emitted B-frame was encoded, the reference list held a frame
\* of lower POC and one of higher POC, and the B-frame's POC lies strictly
\* between those of its list0[0] and list1[0].
C4_BFrameBetweenRefs ==
  \A id \in EmittedB :
    /\ \E p \in Pocs(frames[id].refs_at_encode) : p < frames[id].poc
    /\ \E n \in Pocs(frames[id].refs_at_encode) : n > frames[id].poc
    /\ Len(frames[id].list0) > 0 /\ Len(frames[id].list1) > 0
    /\ frames[frames[id].list0[1]].poc < frames[id].poc
    /\ frames[frames[id].list1[1]].poc > frames[id].poc

\* A B-frame has been emitted that was encoded against three references.
C4_Witness ==
  \E id \in EmittedB : Len(frames[id].refs_at_encode) >= 3

\* C5: every emitted frame with gop_index = 0 is an I slice, a reference,
\* and flagged as a sync point.
C5_GopStartIsKey ==
  \A i \in 1 .. Len(emitted) :
    frames[emitted[i]].gop_index = 0 =>
      /\ frames[emitted[i]].type = "I"
      /\ frames[emitted[i]].is_ref
      /\ frames[emitted[i]].sync_point

\* The frame opening a second GOP has been emitted.
C5_Witness ==
  \E i \in 2 .. Len(emitted) :
    frames[emitted[i]].gop_index = 0 /\ emitted[i] > 1

\* C6: the frames of the reference list have pairwise distinct frame_num.
C6_DistinctFrameNum ==
  \A i, j \in 1 .. Len(ref_list) :
    i # j => frames[ref_list[i]].frame_num # frames[ref_list[j]].frame_num

\* C7: no two pictures still usable as references hold the same DPB slot.
C7_SlotOwnedOnce ==
  \A p, q \in LiveRefs : p # q => frames[p].slotIndex # frames[q].slotIndex

\* C8: a semaphore value changes only in a step where end() submitted a job,
\* and then by exactly the number of frames flagged semaphored on its image;
\* a failed end() and every other operation leave every value as it was.
C8_SemaphoreOnlyByEnd ==
  [][/\ semaphore_value' # semaphore_value => Len(device') > Len(device)
     /\ Len(device') > Len(device) =>
          \A m \in Images :
            semaphore_value'[m] = semaphore_value[m] + Increments(op.frames, m)
    ]_vars

\* An end() has advanced the semaphore of a flagged frame, and another frame
\* is flagged for the next end().
C8_Witness ==
  /\ \E m \in Images : semaphore_value[m] > 0
  /\ \E i \in 1 .. Len(op.frames) : op.frames[i].semaphored

\* C9: no job in flight reads an image that an earlier job still in flight
\* writes.
C9_ReadAfterWriteCompleted ==
  \A i, j \in 1 .. Len(device) :
    i < j => device[i].write \notin device[j].reads

\* An encode is in flight that reads the image an earlier encode wrote.
C9_Witness ==
  /\ pc = "waiting" /\ device # << >>
  /\ \E r \in device[1].reads : r < device[1].pic /\ frames[r].slotIndex >= 0

\* C10: a stop right after a stop succeeds, as the first did, and changes
\* nothing of the encoder.
C10_StopIdempotent ==
  [][(EncStop /\ pc' = "stop_again") =>
       /\ ret /\ ret'
       /\ enc' = enc /\ op' = op /\ device' = device /\ frames' = frames
       /\ semaphore_value' = semaphore_value
    ]_vars

\* Stop was called twice in a row on an encoder that had encoded.
C10_Witness == pc = "stop_again" /\ enc.encoding_setup /\ ~enc.started

\* C11: a start that fails leaves the encoder not started with an error
\* returned, and once stop has run after it the encoder holds no session,
\* no session parameters, no operation and no profile caps.
C11_FailedStartThenStopClean ==
  /\ (pc = "ready" /\ ~ret /\ frames = << >>) => ~enc.started
  /\ pc \in {"stop", "stop_again"} =>
       /\ ret /\ ~enc.started
       /\ ~enc.session /\ ~enc.session_params /\ ~enc.exec
       /\ ~enc.profile_caps

\* The bytes of the packed headers of picture p.
PackedHeaderBytes(p) == params_size(frames[p].packed_headers)

\* C12: for every picture whose encode query was complete, the output
\* buffer holds offset + size + packed_header_bytes bytes.
C12_OutputByteCount ==
  \A p \in LivePictures :
    frames[p].encode_res.complete =>
      frames[p].out_buffer.size =
        frames[p].encode_res.offset + frames[p].encode_res.data_size
          + PackedHeaderBytes(p)

\* The emitted frames that were flagged force-keyframe and admitted in the
\* middle of a GOP.
EmittedForcedMidGop ==
  {id \in 1 .. Len(frames) :
     /\ Count(emitted, id) > 0
     /\ frames[id].force_keyframe /\ frames[id].gop_index > 0}

HasParamsHeader(id) ==
  \E i \in 1 .. Len(frames[id].packed_headers) :
    frames[id].packed_headers[i].kind = "PARAMS"

\* C13: a force-keyframe frame admitted in the middle of a GOP is emitted as
\* an I slice that is a reference and a sync point, with the parameter
\* headers in front, and was encoded against a reference list that had been
\* cleared when it was admitted.
C13_ForcedKeyframeIsIdr ==
  \A id \in EmittedForcedMidGop :
    /\ frames[id].type = "I" /\ frames[id].is_ref
    /\ frames[id].sync_point
    /\ HasParamsHeader(id)
    /\ frames[id].refs_at_encode = << >>

\* C14: when flush is called with frames still buffered in the middle of a
\* GOP, the buffered frames are emitted with the last B promoted to P,
\* nothing is held past the flush, and cur_frame_index and cur_frame_num
\* are 0 afterwards.
C14_FlushEmitsBuffered ==
  (pc = "flushed" /\ ~aborted) =>
    /\ reorder_list = << >> /\ output_list = << >>
    /\ \A id \in 1 .. Len(frames) : Count(emitted, id) = 1
    /\ Len(frames) > 0 => frames[Len(frames)].type # "B"
    /\ gop.cur_frame_index = 0 /\ gop.cur_frame_num = 0

\* The run is the one of the scenario: the GOP structure kept the properties
\* as they were set, and no intra frame besides the IDR was asked for.
PyramidGopKept ==
  /\ gop.idr_period = PyramidGop.idr_period
  /\ gop.num_iframes = 0
  /\ gop.num_bframes = PyramidGop.num_bframes
  /\ gop.num_ref_frames = PyramidGop.num_ref_frames
  /\ gop.b_pyramid

\* Frames by id (input position + 1) in the order I(0), P(4), B(2), B(1),
\* B(3), P(7), B(6), B(5).
PyramidOrder == <<1, 5, 3, 2, 4, 8, 7, 6>>

HandedToGpu == {f \in 1 .. Len(frames) : frames[f].out_buffer.set}

\* C16: for every encoded frame the reference slots handed to the GPU are
\* exactly the entries of its list0 and list1, referenceSlotCount being
\* |list0| + |list1|; a B frame's list1 is not empty and is handed over.
C16_GpuHandedBothLists ==
  \A f \in HandedToGpu :
    /\ frames[f].referenceSlotCount =
         Len(frames[f].list0) + Len(frames[f].list1)
    /\ frames[f].pReferenceSlots =
         Range(frames[f].list0) \cup Range(frames[f].list1)
    /\ frames[f].type = "B" =>
         Range(frames[f].list1) \cap frames[f].pReferenceSlots # {}

\* The GOP structure has no B frames and keeps one reference.
LowDelayGop == gop.num_bframes = 0 /\ gop.num_ref_frames = 1

StreamTestCase ==
  /\ pc = "new"
  /\ frames[Len(frames)].packed_headers = << >>
  /\ frames[Len(frames)].nb_refs > 0 => HeldPicture = Len(frames) - 1

\* The encode call of StreamTestCase on a device that does its part.
StreamSubmitOk(ub) ==
  EncodeSubmit(World(TRUE), Len(frames),
               IF frames[Len(frames)].nb_refs > 0 THEN <<HeldPicture>>
               ELSE << >>, "ok", ub)

\* C18: after a successful start and for any number of pictures, also more
\* than there are DPB slots, encoding an IDR reference picture and then P
\* reference pictures that refer to their predecessor, or intra reference
\* pictures only, succeeds for every picture with an output buffer, and the
\* stop that follows returns TRUE: wherever the caller stands, the call it
\* makes next succeeds when the device does.
C18_StreamSucceeds ==
  /\ StreamTestCase =>
       \A ub \in {"benign", "crash"} :
         /\ ~StreamSubmitOk(ub).aborted /\ StreamSubmitOk(ub).ok
         /\ Submitted(World(TRUE), StreamSubmitOk(ub))
         /\ StreamSubmitOk(ub).frames[Len(frames)].out_buffer.set
  /\ (pc = "waiting" /\ FencesSignalled(World(TRUE))) =>
       LET s == EncodeQueried(World(TRUE), [complete |-> TRUE, offset |-> 0,
                                            data_size |-> 1])
       IN  s.ok /\ s.frames[op.cmds.pic].out_buffer.set
  /\ (pc = "ready" /\ Len(frames) > 0) =>
       ret /\ frames[Len(frames)].encoded
  /\ (pc = "ready" /\ LivePictures = {}) =>
       gst_vulkan_encoder_stop(World(TRUE)).ok
  /\ pc = "stopped" => ret

C18_Witness ==
  /\ pc = "stopped" /\ ret
  /\ Len(frames) > enc.maxDpbSlots
  /\ \A p \in 1 .. Len(frames) : frames[p].encoded
  /\ frames[1].type = "I"
  /\ \A p \in 2 .. Len(frames) :
       frames[p].type = "P" /\ frames[p].pReferenceSlots = {p - 1}

\* A reference frame has just been encoded and admitted to ref_list.
JustAdmitted ==
  pc = "reorder" /\ frame_encode # NULL /\ frames[frame_encode].is_ref

\* The reference list the admitted frame found, and what left it.
RefsBefore == frames[frame_encode].refs_at_encode
Evicted == Range(RefsBefore) \ Range(ref_list)

\* C19: when a reference frame is admitted, nothing is evicted while
\* |ref_list| < num_ref_frames; otherwise, without b_pyramid or when the
\* frame is I or P, exactly the head of the reference list, the oldest by
\* frame_num, is evicted.
C19_SlidingWindowEviction ==
  JustAdmitted =>
    /\ frame_encode \in Range(ref_list)
    /\ Len(RefsBefore) < gop.num_ref_frames => Evicted = {}
    /\ (/\ Len(RefsBefore) >= gop.num_ref_frames
        /\ ~gop.b_pyramid \/ frames[frame_encode].type # "B") =>
         /\ RefsBefore # << >>
         /\ Evicted = {Head(RefsBefore)}
         /\ \A r \in Range(RefsBefore) :
              frames[Head(RefsBefore)].frame_num <= frames[r].frame_num

\* The B frames of the reference list the admitted frame found.
BRefsBefore == {r \in Range(RefsBefore) : frames[r].type = "B"}

\* A B reference frame admitted to a full reference list that holds a B,
\* with b_pyramid.
PyramidBAdmitted ==
  /\ JustAdmitted /\ gop.b_pyramid /\ frames[frame_encode].type = "B"
  /\ Len(RefsBefore) >= gop.num_ref_frames
  /\ BRefsBefore # {}

ImplicitOrder(list, is_asc) ==
  SortBy(list, frames, IF is_asc THEN "frame_num" ELSE "frame_num_des")

\* What a decoder makes of the implicit list under the modification
\* operations of a slice header: each operation but the last names a
\* picture by its distance from the one named before (the current picture
\* at first), the named pictures come first and the others follow in the
\* implicit order.
RECURSIVE NamedPicNums(_, _)
NamedPicNums(ops, pred) ==
  IF ops = << >> \/ Head(ops).modification_of_pic_nums_idc = 3 THEN << >>
  ELSE LET step == Head(ops).abs_diff_pic_num_minus1 + 1
           num  == IF Head(ops).modification_of_pic_nums_idc = 0
                   THEN pred - step ELSE pred + step
       IN  <<num>> \o NamedPicNums(Tail(ops), num)

Modified(list, is_asc, ops, frame_num) ==
  LET implicit == ImplicitOrder(list, is_asc)
      nums  == NamedPicNums(ops, frame_num)
      named == [i \in 1 .. Len(nums) |->
                  IF \E r \in Range(list) : frames[r].frame_num = nums[i]
                  THEN CHOOSE r \in Range(list) : frames[r].frame_num = nums[i]
                  ELSE NULL]
  IN  named \o SelectSeq(implicit, LAMBDA r : r \notin Range(named))

\* Whether the slice of frame id has its modification flag set, in the
\* reference list information handed to the device along with reference
\* slots or in a packed slice header.
FlagSetL0(id) ==
  \/ /\ frames[id].referenceSlotCount > 0
     /\ frames[id].ref_pic_list_modification_flag_l0 = 1
  \/ \E i \in 1 .. Len(frames[id].slice_hdrs) :
       frames[id].slice_hdrs[i].ref_pic_list_modification_flag_l0 = 1
FlagSetL1(id) ==
  \/ /\ frames[id].referenceSlotCount > 0
     /\ frames[id].ref_pic_list_modification_flag_l1 = 1
  \/ \E i \in 1 .. Len(frames[id].slice_hdrs) :
       frames[id].slice_hdrs[i].ref_pic_list_modification_flag_l1 = 1

JustEncoded ==
  pc = "reorder" /\ frame_encode # NULL /\ frames[frame_encode].encoded
PastRefs ==
  {r \in Range(RefsBefore) : frames[r].poc <= frames[frame_encode].poc}
FutureRefs ==
  {r \in Range(RefsBefore) : frames[r].poc > frames[frame_encode].poc}

\* list holds the n nearest of the candidates, or all of them when they are
\* fewer, each once, nearest first; nearer(a, b) is the order of the list.
NearestOf(list, cands, n, nearer(_, _)) ==
  /\ Len(list) = Min(Cardinality(cands), n)
  /\ Range(list) \subseteq cands
  /\ \A i, j \in 1 .. Len(list) : i < j => list[i] # list[j] /\ nearer(list[i], list[j])
  /\ \A r \in cands \ Range(list) : \A i \in 1 .. Len(list) : nearer(list[i], r)

\* C23: list0 is the reference frames with poc <= the current frame's, by
\* poc descending, cut to ref_num_list0; list1 is those with poc > the
\* current frame's, by poc ascending, cut to ref_num_list1; both are empty
\* for an I slice.
C23_ListConstruction ==
  JustEncoded =>
    LET cur == frames[frame_encode]
    IN  IF cur.type = "I" THEN cur.list0 = << >> /\ cur.list1 = << >>
        ELSE /\ NearestOf(cur.list0, PastRefs, gop.ref_num_list0,
                          LAMBDA a, b : frames[a].poc >= frames[b].poc)
             /\ NearestOf(cur.list1, FutureRefs, gop.ref_num_list1,
                          LAMBDA a, b : frames[a].poc <= frames[b].poc)

\* A B frame has been encoded against more past references than list0
\* takes, and with a future reference.
C23_Witness ==
  /\ JustEncoded /\ frames[frame_encode].type = "B"
  /\ Cardinality(PastRefs) > gop.ref_num_list0
  /\ gop.ref_num_list0 > 0
  /\ FutureRefs # {}
  /\ frames[frame_encode].list1 # << >>

\* C24: a gst_vulkan_operation_begin that succeeds leaves the command
\* buffer locked, and a gst_vulkan_operation_end on a begun operation
\* leaves it unlocked however it returns: on success, when the fence cannot
\* be created, when the command buffer cannot be ended or submitted.
C24_EndReleasesLock ==
  [][/\ (OpBegin /\ ret') => (op'.cmd_buf /\ op'.locked)
     /\ (OpEnd /\ op.cmd_buf /\ op.locked) => ~op'.locked]_vars

\* C25: the first picture a session encodes, after the first start as after
\* a start that follows a stop, is recorded with the reset control and,
\* unless the rate control mode is the default, the rate control control;
\* every later picture of the session is recorded with no control and with
\* the rate control information chained to begin-coding.
C25_ResetOnFirstFrame ==
  [][(SessionEncode /\ enc.started /\ ret') =>
       LET cur == frames'[Len(frames')]
           rated == enc.prop.rate_control # "default"
       IN  IF pc = "started"
           THEN /\ "RESET" \in Range(cur.controls)
                /\ rated => "ENCODE_RATE_CONTROL" \in Range(cur.controls)
           ELSE /\ cur.controls = << >>
                /\ rated => cur.begin_rate_control]_vars

\* The pictures that were encoded with rate-control information handed to
\* the device, in a control or chained to begin-coding.
RateControlled ==
  {id \in 1 .. Len(frames) :
     /\ frames[id].encoded
     /\ \/ frames[id].begin_rate_control
        \/ "ENCODE_RATE_CONTROL" \in Range(frames[id].controls)}

\* C26: the rate-control information handed to the device with a frame
\* has, in CBR mode, one layer with maxBitrate = averageBitrate, in VBR
\* mode one layer with the average bitrate as configured (at most the
\* device's maximum) and the maximum bitrate, and the layer it points to is
\* the one of that frame's encode call.
C26_RateControlLayer ==
  \A id \in RateControlled :
    LET info == frames[id].rate_control_info
    IN  enc.prop.rate_control \in {"cbr", "vbr"} =>
          /\ info.rateControlMode = enc.prop.rate_control
          /\ info.layerCount = 1
          /\ info.pLayers.call = id
          /\ info.pLayers.averageBitrate =
               Min(enc.prop.average_bitrate, DeviceMaxBitrate)
          /\ info.pLayers.maxBitrate =
               IF enc.prop.rate_control = "cbr"
               THEN info.pLayers.averageBitrate ELSE DeviceMaxBitrate

\* C27: a set_format during which the element's session setup fails
\* returns failure.
C27_SetFormatReportsFailure ==
  [][(SetFormat /\ ~enc'.started) => ~ret']_vars

\* C28: an encode call on an encoder that is not started (never started,
\* after a start that failed, after a stop) fails, and records and submits
\* nothing for its picture: no command is recorded, no output buffer is
\* made and the picture is not encoded.
C28_EncodeNeedsSession ==
  [][(SessionEncode /\ ~enc.started) =>
       LET pic == Len(frames')
       IN  /\ ~ret'
           /\ op'.cmds.pic # pic
           /\ ~frames'[pic].out_buffer.set
           /\ ~frames'[pic].encoded]_vars

\* The reorder list a pop of this step looks at: the list before the step,
\* with the frame the step pushed, if any, at its tail.
PoppedFrom ==
  IF Len(frames') > Len(frames) THEN Append(reorder_list, Len(frames'))
  ELSE reorder_list

\* A reorder step has popped a frame from a list whose tail is a B-frame,
\* with b_pyramid on.
PyramidPopped ==
  /\ pc \in {"idle", "reorder"} /\ pc' = "encode" /\ Running'
  /\ gop.b_pyramid /\ PoppedFrom # << >>
  /\ frames'[Last(PoppedFrom)].type = "B"
  /\ frame_encode' # NULL

\* The frames the choice may end at when it starts at frame id and yields,
\* as long as it can, to a frame of the list at one of its reference POCs.
RECURSIVE YieldsTo(_, _, _)
YieldsTo(list, id, fuel) ==
  LET anchors == {a \in Range(list) :
                    /\ a # id
                    /\ frames'[a].poc \in
                         {frames'[id].poc + frames'[id].left_ref_poc_diff,
                          frames'[id].poc + frames'[id].right_ref_poc_diff}}
  IN  IF anchors = {} \/ fuel = 0 THEN {id}
      ELSE UNION {YieldsTo(list, a, fuel - 1) : a \in anchors}

\* The B-frames of the list that come first when levels are compared by
\* before(_, _) and equal levels by the lower POC.
FirstByLevel(list, before(_, _)) ==
  {b \in Range(list) :
     /\ frames'[b].type = "B"
     /\ \A c \in Range(list) :
          (frames'[c].type = "B" /\ c # b) =>
            \/ before(frames'[b].pyramid_level, frames'[c].pyramid_level)
            \/ /\ frames'[b].pyramid_level = frames'[c].pyramid_level
               /\ frames'[b].poc < frames'[c].poc}

C30_IdrPeriodRange ==
  [][SetFormat => gop'.idr_period \in 1 .. 1024]_vars

\* C31: for every planned GOP max_pic_order_cnt is greater than twice
\* idr_period, for the periods planned here and for the periods up to the
\* largest one planning keeps, and two frames of one GOP never have the
\* same POC.
C31_PocRangeCoversGop ==
  /\ \A idr \in (0 .. 40) \cup {63, 64, 127, 128, 255, 256, 511, 512, 1023, 1024} :
       2 ^ (_get_log2_max_num(idr) + 1) > 2 * idr
  /\ (pc # "init" /\ ~aborted) =>
       /\ gop.max_pic_order_cnt > 2 * gop.idr_period
       /\ gop.max_pic_order_cnt = 2 ^ (_get_log2_max_num(gop.idr_period) + 1)
       /\ \A a, b \in 1 .. Len(frames) :
            (a # b /\ SameGop(a, b)) => frames[a].poc # frames[b].poc

\* A GOP of the longest period planned here has all its frames, the last
\* one at POC 2 * (idr_period - 1).
C31_Witness ==
  /\ pc # "init" /\ ~aborted /\ gop.idr_period = MaxIdrPeriod
  /\ \E a \in 1 .. Len(frames) :
       /\ frames[a].poc = 2 * (MaxIdrPeriod - 1)
       /\ \A i \in 0 .. MaxIdrPeriod - 1 :
            \E b \in 1 .. Len(frames) : SameGop(a, b) /\ frames[b].poc = 2 * i

\* The positions of the GOP table that hold an I slice.
ISlices ==
  {i \in 0 .. gop.idr_period - 1 : gop.frame_types[i].slice_type = "I"}

\* C32: in every planned GOP of one frame or more, the GOP table holds
\* 1 + num_iframes I slices, and each I slice but the last is followed by
\* the next one i_period positions later.
C32_ISliceCountAndSpacing ==
  (pc # "init" /\ ~aborted /\ gop.idr_period > 0) =>
    /\ Cardinality(ISlices) = 1 + gop.num_iframes
    /\ \A i \in ISlices :
         (\E j \in ISlices : j > i) =>
           /\ i + gop.i_period \in ISlices
           /\ \A j \in ISlices : ~(i < j /\ j < i + gop.i_period)

\* The frames a handle_frame step took out of the reorder list, and the
\* frames it handed to encode_frame for the first time.
PoppedInStep ==
  (Range(reorder_list) \cup (Len(frames) + 1 .. Len(frames'))) \ Range(reorder_list')
EncodedInStep ==
  {f \in 1 .. Len(frames') :
     frames'[f].picture /\ (f > Len(frames) \/ ~frames[f].picture)}

\* C33: in a handle_frame call that succeeds, the frames handed to
\* encode_frame are the frames the reorder step gave out, and no frame is
\* pushed out twice because it was encoded twice.
C33_EncodesReorderedFrame ==
  [][(HandleFrame /\ Running') =>
       /\ EncodedInStep = PoppedInStep
       /\ \A f \in 1 .. Len(frames') :
            Count(emitted' \o output_list', f) <= 1]_vars

\* C34: each recorder call that takes the object lock has released it when
\* it returns, whatever it returns and whatever the device supports, and no
\* call on the recorder is left waiting for the lock for ever.
C34_ObjectLockReleased ==
  [][/\ (\/ OpAddFrameBarrier \/ OpAddDependencyFrame \/ OpUpdateFrame
         \/ OpDiscardDependencies \/ OpEnd) => ~op'.object_locked
     /\ pc' # "hung"]_vars

\* The signals for the semaphore of image m that end() hands to the queue.
SignalsFor(m) ==
  {i \in 1 .. Len(op.signal_semaphores) : op.signal_semaphores[i].semaphore = m}

\* C35: when end() has submitted, the value kept for an image has moved
\* only if the submit held exactly one signal for its semaphore, of the old
\* value plus one, and then by one; and every signal the submit held for an
\* image is for the value kept afterwards.
C35_HostValueMatchesSignal ==
  [][(OpEnd /\ ret' /\ Len(device') > Len(device)) =>
       \A m \in Images :
         /\ semaphore_value'[m] # semaphore_value[m] =>
              /\ semaphore_value'[m] = semaphore_value[m] + 1
              /\ Cardinality(SignalsFor(m)) = 1
         /\ \A i \in SignalsFor(m) :
              op.signal_semaphores[i].value = semaphore_value'[m]]_vars

\* C36: an encode call that has begun its operation writes ref_slots at the
\* slot index of its picture and reads it at the slot index of its first
\* reference, and both lie in 0 .. 15; the slot index of a picture is -1 or
\* lies below maxDpbSlots.
C36_SlotIndexInRange ==
  [][/\ (EncEncode /\ op'.cmd_buf) =>
          LET pic == Len(frames)
          IN  /\ frames'[pic].slotIndex \in 0 .. REF_SLOTS_LEN - 1
              /\ frames[pic].nb_refs > 0 =>
                   \A r \in LiveRefs :
                     frames[r].slotIndex \in 0 .. REF_SLOTS_LEN - 1
     /\ \A p \in 1 .. Len(frames') :
          frames'[p].picture =>
            \/ frames'[p].slotIndex = -1
            \/ frames'[p].slotIndex \in 0 .. enc'.maxDpbSlots - 1]_vars

(* -------------------- the configured quality range --------------------- *)
\* The largest min_quality the caller configures before start.
MaxMinQuality == 2

\* gst_h265_encoder_start: current_quality is prop.min_quality, which the
\* owner of the encoder has set, and the frame counter is cleared.
EncoderStart ==
  /\ pc = "init"
  /\ \E min_quality \in 0 .. MaxMinQuality :
       Commit([World(TRUE) EXCEPT !.current_quality = min_quality,
                                  !.nb_frames = 0],
              "init")
  /\ UNCHANGED draining

NextQuality == EncoderStart \/ SetFormat \/ HandleFrame

SpecQuality == Init /\ [][NextQuality]_vars

\* C37: whatever quality range is configured, the quality step of
\* handle_frame returns GST_FLOW_OK for every frame, the first one
\* included, so that every handle_frame call of a running encoder takes its
\* frame in (the frame is created and given to reorder_frame).
C37_QualityStepReturnsOk ==
  [][HandleFrame =>
       /\ gst_h265_encoder_set_quality(World(TRUE)) = 0
       /\ Len(frames') = Len(frames) + 1]_vars

(* ------------------------- output time stamps -------------------------- *)
\* One second in GstClockTime units (nanoseconds).
GST_SECOND == 1000000000

\* self->frame_duration as gst_h265_encoder_set_format computes it, for a
\* frame rate with a numerator: gst_util_uint64_scale (GST_SECOND, d, n).
FrameDuration(fps) == (GST_SECOND * fps.d) \div fps.n

\* gst_vulkan_h265enc_prepare_output: the time stamps of the frame that is
\* pushed out when output_frame_count is count.  start_pts
\* is never written and stays 0.
gst_vulkan_h265enc_prepare_output(w, frame, frame_duration, count) ==
  [pts |-> 0 + frame_duration * w.frames[frame].total_frame_count,
   dts |-> 0 + frame_duration
                 * (count - w.gop.num_reorder_frames)]

\* The positions of emitted that a step has added.
EmittedInStep == (Len(emitted) + 1) .. Len(emitted')

_init_std_sps(g) == [log2_max_pic_order_cnt_lsb_minus4 |-> 4]

\* The number of POC values the SPS declares.
SpsPocRange(g) == 2 ^ (_init_std_sps(g).log2_max_pic_order_cnt_lsb_minus4 + 4)

\* C39: once a GOP is planned, every POC given to a frame is below the POC
\* range the SPS declares, that range is the planner's max_pic_order_cnt,
\* and the same holds for the last frame of a GOP of every period up to the
\* largest one planning keeps.
C39_PocWithinSpsRange ==
  (pc # "init" /\ ~aborted) =>
    /\ \A f \in 1 .. Len(frames) : frames[f].poc < SpsPocRange(gop)
    /\ SpsPocRange(gop) = gop.max_pic_order_cnt
    /\ \A idr \in {1, 16, 64, 127, 128, 129, 512, 1024} :
         ((idr - 1) * 2) % (2 ^ (_get_log2_max_num(idr) + 1)) < SpsPocRange(gop)

(* ---------------------- set_format a second time ----------------------- *)
\* The element's num-ref-frames property as gst_vulkan_h265enc_init leaves
\* it.
DefaultNumRefFrames == 3

\* The largest highest_pyramid_level a plan is made from again.
MaxReplanLevel == 2

\* gst_h265_encoder_set_format with the caller at p, for the properties left
\* at their defaults on a device that starts and answers MaxRefFrames and 2
\* to max_num_reference, with input caps of 5/2 frames per second; gs: what
\* self->gop holds on entry.  gst_vulkan_h265enc_reset writes num_ref_frames
\* from the property; nothing else of gop is written before planning.
SetFormatDefault(p, gs) ==
  /\ pc = p /\ Running /\ ~draining
  /\ \E g0 \in gs :
       LET g  == [g0 EXCEPT !.num_ref_frames = DefaultNumRefFrames]
           w1 == gst_vulkan_encoder_start(World(TRUE), "none", REF_SLOTS_LEN,
                                          TRUE, TRUE)
           caps == [ok |-> w1.enc.started, list0 |-> MaxRefFrames, list1 |-> 2]
       IN  Commit([w1 EXCEPT
                     !.gop = _generate_gop_structure(g, [n |-> 5, d |-> 2],
                                                     caps),
                     !.ok = TRUE],
                  "idle")
  /\ UNCHANGED draining

\* set_format again, between two frames, with nothing reconfigured.
SetFormatAgain ==
  /\ gop.highest_pyramid_level < MaxReplanLevel
  /\ SetFormatDefault("idle", {gop})

NextReplan ==
  \/ SetFormatDefault("init",
       {[gop EXCEPT !.idr_period = idr, !.num_bframes = nb, !.b_pyramid = pyr,
                    !.num_iframes = nif] :
          idr \in 0 .. MaxIdrPeriod, nb \in 0 .. MaxBFrames, pyr \in BOOLEAN,
          nif \in 0 .. 1})
  \/ SetFormatAgain
  \/ PushFrames("idle", MaxFrames, {FALSE})
  \/ EncodeFrame
  \/ ReorderNull

SpecReplan == Init /\ [][NextReplan]_vars

\* The plan in gop, without the counters that frames move.
PlanOf(g) ==
  [g EXCEPT !.cur_frame_index = 0, !.cur_frame_num = 0, !.total_idr_count = 0]

\* C40: set_format run again with the configuration unchanged leaves the
\* plan (GOP table, pyramid levels, reference counts) as the first run made
\* it, and the counters as the first run left them, whatever was planned
\* and encoded before.
C40_ReplanSameAsFirstRun ==
  [][SetFormatAgain =>
       /\ PlanOf(gop') = PlanOf(gop)
       /\ gop' = PlanOf(gop')]_vars
====
